---- MODULE Spec2Model ----
(***************************************************************************)
(* A model of the rubric converter (src/rubric_converter.py): the cell     *)
(* micro-grammar, the format detector and the schema mappings between the  *)
(* RBC document, the IMS document and the spreadsheet grid.                *)
(*                                                                         *)
(* Text is a sequence of one-character strings, so slicing, trimming,      *)
(* matching and number formatting are computed character by character.     *)
(* A Python value is a record [k, s, n, e]:                                *)
(*   k = "none"  : None                                                    *)
(*   k = "nan"   : the float NaN pandas gives for an empty spreadsheet cell*)
(*   k = "str"   : the text s                                              *)
(*   k = "int"   : the integer n                                           *)
(*   k = "float" : the float n / 10^e (no trailing zero in the fraction,   *)
(*                 e = 0 for a float without fractional part)              *)
(***************************************************************************)
EXTENDS Integers, Sequences, FiniteSets, TLC

VARIABLES pc, op, arg, res, mem, xlsx, json, stderr

vars == <<pc, op, arg, res, mem, xlsx, json, stderr>>

(***************************************************************************)
(* Bounds of the checked inputs.                                           *)
(***************************************************************************)
MaxTextLen == 5
MaxDescLen == 2
MaxRows == 2
MaxScaleCols == 2

MaxLevels == 2

(***************************************************************************)
(* Python values.                                                          *)
(***************************************************************************)
None == [k |-> "none", s |-> <<>>, n |-> 0, e |-> 0]
NaN == [k |-> "nan", s |-> <<>>, n |-> 0, e |-> 0]
Str(t) == [k |-> "str", s |-> t, n |-> 0, e |-> 0]
IntV(i) == [k |-> "int", s |-> <<>>, n |-> i, e |-> 0]
FloatV(m, d) == [k |-> "float", s |-> <<>>, n |-> m, e |-> d]

IsStr(v) == v.k = "str"
IsNum(v) == v.k \in {"int", "float"}

\* bool(v): None, "", 0 and 0.0 are false; NaN is a non-zero float
Truthy(v) ==
    CASE v.k = "none" -> FALSE
      [] v.k = "nan" -> TRUE
      [] v.k = "str" -> v.s # <<>>
      [] OTHER -> v.n # 0

\* v == w in Python: numbers compare by value whatever their type, NaN
\* equals nothing, values of different kinds are unequal
PyEq(v, w) ==
    CASE v.k = "nan" \/ w.k = "nan" -> FALSE
      [] IsNum(v) /\ IsNum(w) -> v.n = w.n /\ v.e = w.e
      [] OTHER -> v = w

(***************************************************************************)
(* Characters and text.                                                    *)
(***************************************************************************)
Digits == <<"0", "1", "2", "3", "4", "5", "6", "7", "8", "9">>

NL == "\n"

\* str.isspace() on the characters of the model
IsSpace(c) == c \in {" ", "\n", "\t", "\r"}

IsDigit(c) == \E i \in 1..10 : Digits[i] = c

DigitVal(c) == (CHOOSE i \in 1..10 : Digits[i] = c) - 1

Pow10(d) == IF d = 0 THEN 1 ELSE IF d = 1 THEN 10 ELSE IF d = 2 THEN 100 ELSE 1000

RECURSIVE LStrip(_)
LStrip(t) == IF t # <<>> /\ IsSpace(Head(t)) THEN LStrip(Tail(t)) ELSE t

RECURSIVE RStrip(_)
RStrip(t) ==
    IF t # <<>> /\ IsSpace(t[Len(t)]) THEN RStrip(SubSeq(t, 1, Len(t) - 1)) ELSE t

\* str.strip()
Strip(t) == RStrip(LStrip(t))

HasChar(t, c) == \E i \in 1..Len(t) : t[i] = c

EndsWith(t, suffix) ==
    /\ Len(t) >= Len(suffix)
    /\ SubSeq(t, Len(t) - Len(suffix) + 1, Len(t)) = suffix

Rep(c, count) == [i \in 1..count |-> c]

RECURSIVE DigitsToNat(_)
DigitsToNat(t) ==
    IF t = <<>> THEN 0
    ELSE 10 * DigitsToNat(SubSeq(t, 1, Len(t) - 1)) + DigitVal(t[Len(t)])

RECURSIVE NatToDigits(_)
NatToDigits(i) ==
    IF i < 10 THEN <<Digits[i + 1]>>
    ELSE NatToDigits(i \div 10) \o <<Digits[(i % 10) + 1]>>

RECURSIVE StripZeros(_)
StripZeros(t) ==
    IF t # <<>> /\ t[Len(t)] = "0" THEN StripZeros(SubSeq(t, 1, Len(t) - 1)) ELSE t

\* the fraction digits of m / 10^d, zero-padded on the left to d digits
FracDigits(m, d) ==
    LET ds == NatToDigits(m % Pow10(d))
    IN Rep("0", d - Len(ds)) \o ds

\* str(v) as an f-string writes it: repr of a float keeps ".0"
PyStr(v) ==
    CASE v.k = "none" -> <<"N", "o", "n", "e">>
      [] v.k = "nan" -> <<"n", "a", "n">>
      [] v.k = "str" -> v.s
      [] v.k = "int" ->
           IF v.n < 0 THEN <<"-">> \o NatToDigits(-v.n) ELSE NatToDigits(v.n)
      [] OTHER ->
           LET a == IF v.n < 0 THEN -v.n ELSE v.n
               sign == IF v.n < 0 THEN <<"-">> ELSE <<>>
           IN IF v.e = 0 THEN sign \o NatToDigits(a) \o <<".", "0">>
              ELSE sign \o NatToDigits(a \div Pow10(v.e)) \o <<".">>
                        \o FracDigits(a, v.e)

\* float(text) succeeds: optional blanks, optional sign, digits with at most
\* one point and at least one digit (exponents, "inf", "nan" and "_" need
\* characters outside the model's alphabet)
IsFloatText(t) ==
    LET u == Strip(t)
        b == IF u # <<>> /\ u[1] \in {"+", "-"} THEN Tail(u) ELSE u
    IN /\ \A i \in 1..Len(b) : IsDigit(b[i]) \/ b[i] = "."
       /\ Cardinality({i \in 1..Len(b) : b[i] = "."}) <= 1
       /\ \E i \in 1..Len(b) : IsDigit(b[i])

\* float(text), then int(value) when value.is_integer()
FloatOrInt(t) ==
    LET u == Strip(t)
        neg == u[1] = "-"
        b == IF u[1] \in {"+", "-"} THEN Tail(u) ELSE u
        dot == IF HasChar(b, ".") THEN CHOOSE i \in 1..Len(b) : b[i] = "."
               ELSE Len(b) + 1
        ip == SubSeq(b, 1, dot - 1)
        fp == StripZeros(SubSeq(b, dot + 1, Len(b)))
        m == DigitsToNat(ip \o fp)
        sm == IF neg THEN -m ELSE m
    IN IF fp = <<>> THEN IntV(sm) ELSE FloatV(sm, Len(fp))

(***************************************************************************)
(* The cell micro-grammar.                                                 *)
(***************************************************************************)
NoNewline(t) == ~HasChar(t, NL)

RECURSIVE SkipSpace(_, _)
\* the first index >= i of t that holds no whitespace (Len(t) + 1 if none)
SkipSpace(t, i) ==
    IF i <= Len(t) /\ IsSpace(t[i]) THEN SkipSpace(t, i + 1) ELSE i

\* re.match(r"^(.*?)(?:\s*\[(.*?)\])?$", t): group 1 is the shortest prefix
\* without a line feed after which either the bracket group matches up to the
\* end of the text or the text ends; "." matches no line feed
BracketAt(t, i) ==
    LET j == SkipSpace(t, i + 1)
    IN /\ j < Len(t)
       /\ t[j] = "["
       /\ t[Len(t)] = "]"
       /\ NoNewline(SubSeq(t, j + 1, Len(t) - 1))

CellMatch(t) ==
    LET ends == {i \in 0..Len(t) :
                    /\ NoNewline(SubSeq(t, 1, i))
                    /\ (BracketAt(t, i) \/ i = Len(t))}
    IN IF ends = {} THEN [matched |-> FALSE, g1 |-> <<>>, g2 |-> None]
       ELSE LET i == CHOOSE x \in ends : \A y \in ends : x <= y
            IN [matched |-> TRUE,
                g1 |-> SubSeq(t, 1, i),
                g2 |-> IF BracketAt(t, i)
                       THEN Str(SubSeq(t, SkipSpace(t, i + 1) + 1, Len(t) - 1))
                       ELSE None]

\* the same with a greedy first group "(.*)", which swallows the bracket
parse_desc_value_greedy(cell) ==
    IF ~IsStr(cell) \/ Strip(cell.s) = <<>> THEN [desc |-> None, value |-> IntV(0)]
    ELSE IF NoNewline(Strip(cell.s))
         THEN [desc |-> Str(Strip(cell.s)), value |-> IntV(0)]
         ELSE [desc |-> None, value |-> IntV(0)]

parse_desc_value(cell) ==
    IF ~IsStr(cell) \/ Strip(cell.s) = <<>> THEN [desc |-> None, value |-> IntV(0)]
    ELSE LET m == CellMatch(Strip(cell.s))
         IN IF ~m.matched THEN [desc |-> None, value |-> IntV(0)]
            ELSE LET d == Strip(m.g1)
                     g == m.g2
                 IN [desc |-> IF d = <<>> THEN None ELSE Str(d),
                     value |-> IF g # None /\ g.s # <<>>
                               THEN IF IsFloatText(g.s) THEN FloatOrInt(g.s) ELSE g
                               ELSE IntV(0)]

\* value not in ("", None)
ValuePresent(value) == ~PyEq(value, Str(<<>>)) /\ ~PyEq(value, None)

\* the same with the value tested for truth, so that 0 counts as absent
format_desc_value_truthy(desc, value) ==
    IF Truthy(desc) /\ Truthy(value)
    THEN Str(PyStr(desc) \o <<" ", "[">> \o PyStr(value) \o <<"]">>)
    ELSE IF Truthy(desc) THEN desc
    ELSE IF Truthy(value) THEN Str(<<"[">> \o PyStr(value) \o <<"]">>)
    ELSE Str(<<>>)

format_desc_value(desc, value) ==
    IF Truthy(desc) /\ ValuePresent(value)
    THEN Str(PyStr(desc) \o <<" ", "[">> \o PyStr(value) \o <<"]">>)
    ELSE IF Truthy(desc) THEN desc
    ELSE IF ValuePresent(value) THEN Str(<<"[">> \o PyStr(value) \o <<"]">>)
    ELSE Str(<<>>)

(***************************************************************************)
(* The format detector.  A parsed JSON document is [kind, keys, type,      *)
(* attype]: for an object, keys is its key set and type / attype are the   *)
(* values under "type" and "@type" when those keys are present.            *)
(***************************************************************************)
\* data.get(key) for the keys "type" and "@type"
DocGet(data, key) ==
    IF key \notin data.keys THEN None
    ELSE IF key = "type" THEN data.type ELSE data.attype

\* the same without the precedence of the Turnitin keys
is_ims_format_no_precedence(data) ==
    /\ data.kind = "object"
    /\ \/ "CFRubricCriterion" \in data.keys
       \/ "criteria" \in data.keys
       \/ PyEq(DocGet(data, "type"), Str(<<"R", "u", "b", "r", "i", "c">>))
       \/ PyEq(DocGet(data, "@type"), Str(<<"R", "u", "b", "r", "i", "c">>))

is_ims_format(data) ==
    IF data.kind = "object"
    THEN LET has_cf_rubric_criterion == "CFRubricCriterion" \in data.keys
             has_criteria == "criteria" \in data.keys
             has_type == \/ PyEq(DocGet(data, "type"), Str(<<"R", "u", "b", "r", "i", "c">>))
                         \/ PyEq(DocGet(data, "@type"), Str(<<"R", "u", "b", "r", "i", "c">>))
             has_turnitin_keys == "Rubric" \in data.keys \/ "RubricCriterion" \in data.keys
         IN (has_cf_rubric_criterion \/ has_criteria \/ has_type) /\ ~has_turnitin_keys
    ELSE FALSE

(***************************************************************************)
(* Missing dictionary keys, spreadsheet files and data frames.             *)
(***************************************************************************)
\* the value of a key a dictionary does not hold
Missing == [k |-> "missing", s |-> <<>>, n |-> 0, e |-> 0]

\* dict.get(key, default)
Get(v, default) == IF v = Missing THEN default ELSE v

\* dict.get(key)
GetOrNone(v) == Get(v, None)

CriterionColumn == 
    <<"C", "r", "i", "t", "e", "r", "i", "o", "n", " ", "(", "n", "a", "m", "e", " ", "a", "n", "d", " ", "d", "e", "s", "c", "r", "i", "p", "t", "i", "o", "n", ")">>

\* " (desc [value])", the 15 characters col[:-15] removes
ScaleSuffix == <<" ", "(", "d", "e", "s", "c", " ", "[", "v", "a", "l", "u", "e", "]", ")">>

\* "(desc [value])", the ending the column filter tests
ScaleSuffixTested == Tail(ScaleSuffix)

SuffixLen == 15

RubricNameMax == 30

ScaleNameMax == 25

CritNameMax == 13

ScaleIdSeed == 1000000

CritIdSeed == 2000000

CsIdSeed == 3000000

\* the same yielding start + 1 first
generate_id_skip_first(start, k) == start + k + 1

\* generate_id(start): the value of the k-th next(), k counted from 0
generate_id(start, k) == start + k

RECURSIVE Replace(_, _, _)
\* str.replace(old, new) for single characters
Replace(t, old, new) ==
    IF t = <<>> THEN <<>>
    ELSE <<IF Head(t) = old THEN new ELSE Head(t)>> \o Replace(Tail(t), old, new)

\* the number of i < idx with cols[i] = cols[idx]
EarlierSame(cols, idx) == Cardinality({i \in 1..(idx - 1) : cols[i] = cols[idx]})

\* pandas renames the k-th repeat of a column name to "name.k"
MangleDupes(cols) ==
    [i \in 1..Len(cols) |->
        IF EarlierSame(cols, i) = 0 THEN cols[i]
        ELSE cols[i] \o <<".">> \o NatToDigits(EarlierSame(cols, i))]

\* an empty cell is read as NaN
ReadCell(v) == IF v = Str(<<>>) \/ v = None THEN NaN ELSE v

\* the rows of a sheet up to the last one that holds a non-empty cell: the
\* reader drops the empty rows at the end of a sheet
FilledRows(file) ==
    Cardinality({r \in 1..Len(file.rows) :
                    \E q \in r..Len(file.rows) : \E j \in 1..Len(file.rows[q]) :
                        ReadCell(file.rows[q][j]) # NaN})

\* pd.read_excel(path): the data frame of a spreadsheet file
read_excel(file) ==
    [columns |-> MangleDupes(file.columns),
     rows |-> [r \in 1..FilledRows(file) |->
                  [j \in 1..Len(file.rows[r]) |-> ReadCell(file.rows[r][j])]]]

\* df.to_excel(path): the spreadsheet file of a data frame
to_excel(columns, rows) == [exists |-> TRUE, columns |-> columns, rows |-> rows]

HasColumn(df, name) == \E j \in 1..Len(df.columns) : df.columns[j] = name

ColumnIndex(df, name) ==
    CHOOSE j \in 1..Len(df.columns) :
        df.columns[j] = name /\ \A i \in 1..(j - 1) : df.columns[i] # name

\* row.get(name, None)
RowGet(df, r, name) ==
    IF HasColumn(df, name) THEN df.rows[r][ColumnIndex(df, name)] ELSE None

NoXlsx == [exists |-> FALSE, columns |-> <<>>, rows |-> <<>>]

NoJson == [exists |-> FALSE, doc |-> None]

(***************************************************************************)
(* Criterion label cells and truncation.                                   *)
(***************************************************************************)
FirstNewline(t) ==
    IF HasChar(t, NL) THEN CHOOSE i \in 1..Len(t) : t[i] = NL /\ NoNewline(SubSeq(t, 1, i - 1))
    ELSE Len(t) + 1

\* the first line is the name, the other lines are the description
parse_criterion_cell(cell) ==
    IF ~IsStr(cell) \/ Strip(cell.s) = <<>> THEN [name |-> <<>>, desc |-> <<>>]
    ELSE [name |-> Strip(SubSeq(cell.s, 1, FirstNewline(cell.s) - 1)),
          desc |-> Strip(SubSeq(cell.s, FirstNewline(cell.s) + 1, Len(cell.s)))]

criterion_cell(name, desc) ==
    IF IsStr(desc) /\ Strip(desc.s) # <<>>
    THEN Str(PyStr(name) \o <<NL>> \o Strip(desc.s))
    ELSE name

\* the same cutting one character too many
truncate_short(val, maxlen) == IF Len(val) > maxlen THEN SubSeq(val, 1, maxlen - 1) ELSE val

truncate(val, maxlen) == IF Len(val) > maxlen THEN SubSeq(val, 1, maxlen) ELSE val

Warning(field, original, truncated) ==
    [field |-> field, original |-> original, truncated |-> truncated]

(***************************************************************************)
(* excel_to_rbc: spreadsheet grid to RBC document.                         *)
(***************************************************************************)
\* col[:-15]
DropSuffix(col) == SubSeq(col, 1, Len(col) - SuffixLen)

IsScaleColumn(col) == EndsWith(col, ScaleSuffixTested)

RECURSIVE MapDropSuffix(_)
MapDropSuffix(cols) ==
    IF cols = <<>> THEN <<>> ELSE <<DropSuffix(Head(cols))>> \o MapDropSuffix(Tail(cols))

\* the scale names as written in the column headers
RawScaleNames(df) == MapDropSuffix(SelectSeq(df.columns, IsScaleColumn))

RECURSIVE ScaleWarnings(_)
ScaleWarnings(names) ==
    IF names = <<>> THEN <<>>
    ELSE (IF Head(names) # truncate(Head(names), ScaleNameMax)
          THEN <<Warning("Scale name", Head(names), truncate(Head(names), ScaleNameMax))>>
          ELSE <<>>) \o ScaleWarnings(Tail(names))

\* the same keeping every occurrence
Dedup_keep_all(names) == names

RECURSIVE Dedup(_)
\* list(dict.fromkeys(names)): the first occurrence of each name, in order
Dedup(names) ==
    IF names = <<>> THEN <<>>
    ELSE LET init == Dedup(SubSeq(names, 1, Len(names) - 1))
             last == names[Len(names)]
         IN IF \E i \in 1..Len(init) : init[i] = last THEN init ELSE Append(init, last)

\* the truncated, deduplicated scale names
ScaleNames(df) ==
    Dedup([i \in 1..Len(RawScaleNames(df)) |-> truncate(RawScaleNames(df)[i], ScaleNameMax)])

RubricScales(scale_names) ==
    [i \in 1..Len(scale_names) |->
        [id |-> generate_id(ScaleIdSeed, i - 1), num |-> i, position |-> i,
         name |-> Str(scale_names[i])]]

\* the same leaving out the records of empty cells
CritScalesOfRow_skip_empty(df, r, scale_names) ==
    SelectSeq(
        [j \in 1..Len(scale_names) |->
            LET cell == RowGet(df, r, scale_names[j] \o ScaleSuffix)
                parsed == parse_desc_value(cell)
            IN [criterion |-> generate_id(CritIdSeed, r - 1),
                scale_value |-> generate_id(ScaleIdSeed, j - 1),
                description |-> parsed.desc,
                value |-> parsed.value,
                id |-> generate_id(CsIdSeed, (r - 1) * Len(scale_names) + j - 1)]],
        LAMBDA cs : cs.description # None \/ cs.value # IntV(0))

\* the criterion-scale-cell records of grid row r, one per scale
CritScalesOfRow(df, r, scale_names) ==
    [j \in 1..Len(scale_names) |->
        LET cell == RowGet(df, r, scale_names[j] \o ScaleSuffix)
            parsed == parse_desc_value(cell)
        IN [criterion |-> generate_id(CritIdSeed, r - 1),
            scale_value |-> generate_id(ScaleIdSeed, j - 1),
            description |-> parsed.desc,
            value |-> parsed.value,
            id |-> generate_id(CsIdSeed, (r - 1) * Len(scale_names) + j - 1)]]

RECURSIVE AllCritScales(_, _, _)
\* the records of rows 1..r, in row order
AllCritScales(df, r, scale_names) ==
    IF r = 0 THEN <<>>
    ELSE AllCritScales(df, r - 1, scale_names) \o CritScalesOfRow(df, r, scale_names)

Ids(records) == [i \in 1..Len(records) |-> records[i].id]

CritWarning(df, r) ==
    LET raw == parse_criterion_cell(RowGet(df, r, CriterionColumn)).name
    IN IF raw # truncate(raw, CritNameMax)
       THEN <<Warning("Criterion name", raw, truncate(raw, CritNameMax))>>
       ELSE <<>>

RECURSIVE CritWarnings(_, _)
CritWarnings(df, r) ==
    IF r = 0 THEN <<>> ELSE CritWarnings(df, r - 1) \o CritWarning(df, r)

RubricCriteria(df, scale_names) ==
    [r \in 1..Len(df.rows) |->
        LET label == parse_criterion_cell(RowGet(df, r, CriterionColumn))
        IN [id |-> generate_id(CritIdSeed, r - 1),
            name |-> Str(truncate(label.name, CritNameMax)),
            description |-> IF label.desc # <<>> THEN Str(label.desc) ELSE None,
            criterion_scales |-> Ids(CritScalesOfRow(df, r, scale_names)),
            position |-> r,
            num |-> r]]

\* the rubric name before truncation: the override, or the file's base name
\* with "_" replaced by " "
RawRubricName(base, override) ==
    IF Truthy(override) THEN override.s ELSE Replace(base, "_", " ")

RubricWarnings(base, override) ==
    LET raw == RawRubricName(base, override)
    IN IF truncate(raw, RubricNameMax) # raw
       THEN <<Warning("Rubric name", raw, truncate(raw, RubricNameMax))>>
       ELSE <<>>

RbcKeys == {"Rubric", "RubricCriterion", "RubricScale", "RubricCriterionScale"}

\* the document and the warnings excel_to_rbc builds in memory; reading the
\* criterion label of a row raises KeyError when the column is absent
excel_to_rbc(df, base, override) ==
    LET scale_names == ScaleNames(df)
        rubric_criteria == RubricCriteria(df, scale_names)
        rubric_scales == RubricScales(scale_names)
        rubric_criterion_scales == AllCritScales(df, Len(df.rows), scale_names)
    IN IF Len(df.rows) > 0 /\ ~HasColumn(df, CriterionColumn)
       THEN [ok |-> FALSE, error |-> "KeyError", doc |-> None, warnings |-> <<>>]
       ELSE [ok |-> TRUE, error |-> "",
             doc |-> [kind |-> "object", keys |-> RbcKeys, type |-> None, attype |-> None,
                      Rubric |-> <<[name |-> Str(truncate(RawRubricName(base, override),
                                                          RubricNameMax)),
                                    criterion |-> Ids(rubric_criteria),
                                    criterion_scales_all |-> Ids(rubric_criterion_scales),
                                    scale_values |-> Ids(rubric_scales)]>>,
                      RubricCriterion |-> rubric_criteria,
                      RubricScale |-> rubric_scales,
                      RubricCriterionScale |-> rubric_criterion_scales],
             warnings |-> RubricWarnings(base, override)
                              \o ScaleWarnings(RawScaleNames(df))
                              \o CritWarnings(df, Len(df.rows))]

(***************************************************************************)
(* ims_to_excel: IMS document to spreadsheet grid.  A criterion is         *)
(* [has_cf, cf_levels, has_levels, levels, Description, title,             *)
(* description]: has_cf / has_levels tell whether the keys                 *)
(* CFRubricCriterionLevels / levels are present.                           *)
(***************************************************************************)
\* x or y
Or(x, y) == IF Truthy(x) THEN x ELSE y

\* the criteria of an IMS document: CFRubricCriterion when the key is present,
\* else criteria, else the empty list
CriteriaData(data) ==
    IF "CFRubricCriterion" \in data.keys THEN data.CFRubricCriterion
    ELSE IF "criteria" \in data.keys THEN data.criteria
    ELSE <<>>

\* the levels of a criterion: CFRubricCriterionLevels when the key is present
LevelsOf(criterion) ==
    IF criterion.has_cf THEN criterion.cf_levels
    ELSE IF criterion.has_levels THEN criterion.levels
    ELSE <<>>

\* the same taking the level count of the first criterion only
max_levels_of_first(criteria_data) == Len(LevelsOf(criteria_data[1]))

RECURSIVE max_levels(_)
\* the largest number of levels of a criterion
max_levels(criteria_data) ==
    IF criteria_data = <<>> THEN 0
    ELSE LET rest == max_levels(Tail(criteria_data))
             num_levels == Len(LevelsOf(Head(criteria_data)))
         IN IF num_levels > rest THEN num_levels ELSE rest

LevelColumn(i) == <<"L", "e", "v", "e", "l", " ">> \o NatToDigits(i) \o ScaleSuffix

\* the score of a level: text is converted to a number, 0 when it is none
LevelPoints(level) ==
    LET points == Or(GetOrNone(level.score), Get(level.points, IntV(0)))
    IN IF IsStr(points)
       THEN IF IsFloatText(points.s) THEN FloatOrInt(points.s) ELSE IntV(0)
       ELSE points

\* the description of a level, after its legacy title when it has one
LevelFullDesc(level) ==
    LET desc == Or(GetOrNone(level.Description), Get(level.description, Str(<<>>)))
        level_title == Get(level.title, Str(<<>>))
    IN IF Truthy(level_title) /\ Truthy(desc)
       THEN Str(PyStr(level_title) \o <<":", " ">> \o PyStr(desc))
       ELSE IF Truthy(level_title) THEN level_title
       ELSE desc

LevelCell(level) == format_desc_value(LevelFullDesc(level), LevelPoints(level))

ImsLabel(criterion) ==
    criterion_cell(Or(GetOrNone(criterion.Description), Get(criterion.title, Str(<<>>))),
                   Get(criterion.description, Str(<<>>)))

\* the grid ims_to_excel builds; a document without criteria raises ValueError
ims_to_excel(data) ==
    LET criteria_data == CriteriaData(data)
        width == max_levels(criteria_data)
    IN IF criteria_data = <<>>
       THEN [ok |-> FALSE, error |-> "ValueError", columns |-> <<>>, rows |-> <<>>]
       ELSE [ok |-> TRUE, error |-> "",
             columns |-> <<CriterionColumn>> \o [i \in 1..width |-> LevelColumn(i)],
             rows |-> [r \in 1..Len(criteria_data) |->
                          LET levels == LevelsOf(criteria_data[r])
                              row == <<ImsLabel(criteria_data[r])>>
                                        \o [i \in 1..Len(levels) |-> LevelCell(levels[i])]
                          IN row \o [i \in 1..(1 + width - Len(row)) |-> Str(<<>>)]]]

(***************************************************************************)
(* rbc_to_excel: RBC document to spreadsheet grid.                         *)
(***************************************************************************)
\* the keys of {r['id']: r for r in records}, in order of first occurrence
DictIds(records) == Dedup([i \in 1..Len(records) |-> records[i].id])

\* the record the dictionary holds for an id: the last one with that id
LastWithId(records, id) ==
    records[CHOOSE i \in 1..Len(records) :
                records[i].id = id /\ \A j \in (i + 1)..Len(records) : records[j].id # id]

\* the values of {r['id']: r for r in records}
DictValues(records) ==
    [k \in 1..Len(DictIds(records)) |-> LastWithId(records, DictIds(records)[k])]

\* the same leaving the records in collection order
SortByPosition_unsorted(records) == records

RECURSIVE SortByPosition(_)
\* sorted(records, key=position): a stable sort
SortByPosition(records) ==
    IF records = <<>> THEN <<>>
    ELSE LET init == SortByPosition(SubSeq(records, 1, Len(records) - 1))
             last == records[Len(records)]
             keep == Cardinality({i \in 1..Len(init) : init[i].position <= last.position})
         IN SubSeq(init, 1, keep) \o <<last>> \o SubSeq(init, keep + 1, Len(init))

\* criterion_scale_map.get(crit_id, {}).get(scale_id, {}), as the pair of
\* cs.get('description', '') and cs.get('value', '')
CellRecord(data, crit_id, scale_id) ==
    LET cells == data.RubricCriterionScale
        hits == {i \in 1..Len(cells) :
                    cells[i].criterion = crit_id /\ cells[i].scale_value = scale_id}
    IN IF hits = {} THEN [description |-> Str(<<>>), value |-> Str(<<>>)]
       ELSE LET cs == cells[CHOOSE i \in hits : \A j \in hits : j <= i]
            IN [description |-> Get(cs.description, Str(<<>>)),
                value |-> Get(cs.value, Str(<<>>))]

\* the same keeping only the criteria that have a cell record
RowCriteria_with_cells(data) ==
    SelectSeq(DictValues(data.RubricCriterion),
              LAMBDA c : \E i \in 1..Len(data.RubricCriterionScale) :
                            data.RubricCriterionScale[i].criterion = c.id)

\* the criteria that give the rows: criteria.items(), in encounter order
RowCriteria(data) == DictValues(data.RubricCriterion)

\* the grid rbc_to_excel builds; an IMS document goes to ims_to_excel, and a
\* document without one of the three collections read raises KeyError
rbc_to_excel(data) ==
    IF is_ims_format(data) THEN ims_to_excel(data)
    ELSE IF ~({"RubricCriterion", "RubricScale", "RubricCriterionScale"} \subseteq data.keys)
    THEN [ok |-> FALSE, error |-> "KeyError", columns |-> <<>>, rows |-> <<>>]
    ELSE LET scales == SortByPosition(DictValues(data.RubricScale))
             criteria == RowCriteria(data)
         IN [ok |-> TRUE, error |-> "",
             columns |-> <<CriterionColumn>>
                            \o [j \in 1..Len(scales) |-> PyStr(scales[j].name) \o ScaleSuffix],
             rows |-> [r \in 1..Len(criteria) |->
                          <<criterion_cell(criteria[r].name,
                                           Get(criteria[r].description, Str(<<>>)))>>
                              \o [j \in 1..Len(scales) |->
                                     LET cs == CellRecord(data, criteria[r].id, scales[j].id)
                                     IN format_desc_value(cs.description, cs.value)]]]

(***************************************************************************)
(* excel_to_ims: spreadsheet grid to IMS document.  The Identifier, URI    *)
(* and lastChangeDateTime fields (random and clock values) are left out.   *)
(***************************************************************************)
\* the index of the first character of t that is one of chars, Len(t) + 1
\* when there is none
FirstWhere(t, chars) ==
    IF \E i \in 1..Len(t) : t[i] \in chars
    THEN CHOOSE i \in 1..Len(t) : t[i] \in chars /\ \A j \in 1..(i - 1) : t[j] \notin chars
    ELSE Len(t) + 1

\* the whitespace characters that occur in t
SpacesOf(t) == {t[i] : i \in {j \in 1..Len(t) : IsSpace(t[j])}}

\* pd.isna(cell) or (isinstance(cell, str) and cell.strip() == "")
IsEmptyCell(cell) == cell = NaN \/ cell = None \/ (IsStr(cell) /\ Strip(cell.s) = <<>>)

\* the cells of row r under the level columns that are not skipped, in
\* column order
LevelCellsOfRow(df, r) ==
    LET level_columns == SelectSeq(df.columns, IsScaleColumn)
    IN SelectSeq([j \in 1..Len(level_columns) |-> RowGet(df, r, level_columns[j])],
                 LAMBDA cell : ~IsEmptyCell(cell))

LevelTitleDefault(level_position) ==
    <<"L", "e", "v", "e", "l", " ">> \o NatToDigits(level_position + 1)

\* the level entry of a cell in the CFRubric key names
CfLevel(cell, level_position) ==
    LET Entry(parsed) ==
            [score |-> Str(PyStr(parsed.value)),
             position |-> level_position,
             Description |-> IF Truthy(parsed.desc) THEN parsed.desc ELSE Str(<<>>)]
    IN Entry(parse_desc_value(cell))

\* the level entry of a cell in the legacy key names: the title is the text
\* before the first ":" of the description, else its first word
LegacyLevel(cell, idx, level_position) ==
    LET Entry(desc, value, colon, space) ==
            [id |-> <<"c", "r", "i", "t", "e", "r", "i", "o", "n", "-">> \o NatToDigits(idx + 1)
                       \o <<"-", "l", "e", "v", "e", "l", "-">> \o NatToDigits(level_position + 1),
             title |-> IF Truthy(desc) /\ HasChar(desc.s, ":")
                       THEN Str(Strip(SubSeq(desc.s, 1, colon - 1)))
                       ELSE IF Truthy(desc) THEN Str(SubSeq(desc.s, 1, space - 1))
                       ELSE Str(LevelTitleDefault(level_position)),
             description |-> IF Truthy(desc) /\ HasChar(desc.s, ":")
                             THEN Str(Strip(SubSeq(desc.s, colon + 1, Len(desc.s))))
                             ELSE IF Truthy(desc) THEN desc
                             ELSE Str(<<>>),
             points |-> value]
        Split(parsed) ==
            Entry(parsed.desc, parsed.value,
                  FirstWhere(parsed.desc.s, {":"}),
                  FirstWhere(parsed.desc.s, SpacesOf(parsed.desc.s)))
    IN Split(parse_desc_value(cell))

\* the same numbering the levels by their column
ImsLevelsOfRow_by_column(df, r, use_cf_format) ==
    LET level_columns == SelectSeq(df.columns, IsScaleColumn)
        kept == {j \in 1..Len(level_columns) : ~IsEmptyCell(RowGet(df, r, level_columns[j]))}
        cells == LevelCellsOfRow(df, r)
        ColumnOf(i) == CHOOSE j \in kept : Cardinality({q \in kept : q <= j}) = i
    IN [i \in 1..Len(cells) |->
           IF use_cf_format THEN CfLevel(cells[i], ColumnOf(i) - 1)
           ELSE LegacyLevel(cells[i], r - 1, ColumnOf(i) - 1)]

\* the levels of grid row r: one per cell that is not skipped, level_position
\* counting the levels appended so far
ImsLevelsOfRow(df, r, use_cf_format) ==
    LET Levels(cells) ==
            [i \in 1..Len(cells) |->
                IF use_cf_format THEN CfLevel(cells[i], i - 1)
                ELSE LegacyLevel(cells[i], r - 1, i - 1)]
    IN Levels(LevelCellsOfRow(df, r))

\* the criterion of grid row r (idx = r - 1)
ImsCriterionOfRow(df, r, use_cf_format) ==
    LET Entry(label, levels) ==
            IF use_cf_format
            THEN [position |-> (r - 1) + 1,
                  Description |-> Str(label.name),
                  CFRubricCriterionLevels |-> levels]
            ELSE [id |-> <<"c", "r", "i", "t", "e", "r", "i", "o", "n", "-">>
                            \o NatToDigits((r - 1) + 1),
                  title |-> Str(label.name),
                  description |-> Str(label.desc),
                  levels |-> levels]
    IN Entry(parse_criterion_cell(RowGet(df, r, CriterionColumn)),
             ImsLevelsOfRow(df, r, use_cf_format))

CfKeys == {"description", "Identifier", "URI", "Title", "lastChangeDateTime", "CFRubricCriterion"}

LegacyKeys == {"@context", "type", "id", "title", "description", "criteria"}

\* the document excel_to_ims builds; a row of a grid without the criterion
\* column raises KeyError
excel_to_ims(df, base, override, use_cf_format) ==
    LET Doc(rubric_name, criteria) ==
            IF use_cf_format
            THEN [kind |-> "object", keys |-> CfKeys, type |-> None, attype |-> None,
                  Title |-> rubric_name, CFRubricCriterion |-> criteria]
            ELSE [kind |-> "object", keys |-> LegacyKeys,
                  type |-> Str(<<"R", "u", "b", "r", "i", "c">>), attype |-> None,
                  title |-> rubric_name, criteria |-> criteria]
    IN IF Len(df.rows) > 0 /\ ~HasColumn(df, CriterionColumn)
       THEN [ok |-> FALSE, error |-> "KeyError", doc |-> None]
       ELSE [ok |-> TRUE, error |-> "",
             doc |-> Doc(Str(RawRubricName(base, override)),
                         [r \in 1..Len(df.rows) |-> ImsCriterionOfRow(df, r, use_cf_format)])]

(***************************************************************************)
(* Inputs of the cell grammar and of the detector.                         *)
(***************************************************************************)
TextsOver(alphabet, maxlen) == UNION {[1..k -> alphabet] : k \in 0..maxlen}

CellAlphabet == {"a", " ", NL, "[", "]", "1", "."}

\* a spreadsheet cell: any text, an empty cell (NaN) or a numeric cell
CellInputs == {Str(t) : t \in TextsOver(CellAlphabet, MaxTextLen)} \cup {NaN, None, IntV(4)}

DescAlphabet == {"a", " ", NL, "[", "]"}

DescInputs == {None} \cup {Str(t) : t \in TextsOver(DescAlphabet, MaxDescLen)}

ValueInputs ==
    {None, Str(<<>>), Str(<<"a">>), Str(<<"1">>), IntV(0), IntV(1), IntV(-1), IntV(12),
     FloatV(0, 0), FloatV(2, 0), FloatV(5, 1), FloatV(15, 1), FloatV(-25, 2)}

NoCell == [text |-> None, desc |-> None, value |-> None]

DocKeyPool == {"CFRubricCriterion", "criteria", "Rubric", "RubricCriterion", "title"}

TypeInputs == {None, Str(<<"R", "u", "b", "r", "i", "c">>), Str(<<"r", "u", "b", "r", "i", "c">>)}

\* objects, and the other JSON documents: a list, a string, a number, null
DocInputs ==
    {[kind |-> "object",
      keys |-> ks \cup (IF t = None THEN {} ELSE {"type"})
                  \cup (IF a = None THEN {} ELSE {"@type"}),
      type |-> t, attype |-> a] :
        ks \in SUBSET DocKeyPool, t \in TypeInputs, a \in TypeInputs}
    \cup {[kind |-> k, keys |-> ks, type |-> None, attype |-> None] :
            k \in {"array", "string", "number", "null"},
            ks \in {{}, {"criteria"}, {"CFRubricCriterion"}}}

Idle == <<>>

(***************************************************************************)
(* The cell grammar as a state machine: one call of parse_desc_value, or   *)
(* one call of format_desc_value followed by parse_desc_value of its       *)
(* result.                                                                 *)
(***************************************************************************)
InitCell ==
    /\ pc = "start"
    /\ op \in {"parse", "format"}
    /\ arg \in IF op = "parse"
               THEN {[text |-> c, desc |-> None, value |-> None] : c \in CellInputs}
               ELSE {[text |-> None, desc |-> d, value |-> v] :
                        d \in DescInputs, v \in ValueInputs}
    /\ res = NoCell
    /\ mem = Idle /\ xlsx = Idle /\ json = Idle /\ stderr = Idle

ParseCell ==
    /\ pc = "start" /\ op = "parse"
    /\ res' = [text |-> arg.text,
               desc |-> parse_desc_value(arg.text).desc,
               value |-> parse_desc_value(arg.text).value]
    /\ pc' = "done"
    /\ UNCHANGED <<op, arg, mem, xlsx, json, stderr>>

FormatCell ==
    /\ pc = "start" /\ op = "format"
    /\ res' = [text |-> format_desc_value(arg.desc, arg.value),
               desc |-> None, value |-> None]
    /\ pc' = "formatted"
    /\ UNCHANGED <<op, arg, mem, xlsx, json, stderr>>

ReparseCell ==
    /\ pc = "formatted" /\ op = "format"
    /\ res' = [text |-> res.text,
               desc |-> parse_desc_value(res.text).desc,
               value |-> parse_desc_value(res.text).value]
    /\ pc' = "done"
    /\ UNCHANGED <<op, arg, mem, xlsx, json, stderr>>

NextCell == ParseCell \/ FormatCell \/ ReparseCell

SpecCell == InitCell /\ [][NextCell]_vars

(***************************************************************************)
(* The detector as a state machine: one call of is_ims_format.             *)
(***************************************************************************)
InitDetect ==
    /\ pc = "start"
    /\ op = "detect"
    /\ arg \in DocInputs
    /\ res = FALSE
    /\ mem = Idle /\ xlsx = Idle /\ json = Idle /\ stderr = Idle

Detect ==
    /\ pc = "start" /\ op = "detect"
    /\ res' = is_ims_format(arg)
    /\ pc' = "done"
    /\ UNCHANGED <<op, arg, mem, xlsx, json, stderr>>

NextDetect == Detect

SpecDetect == InitDetect /\ [][NextDetect]_vars

(***************************************************************************)
(* Inputs of excel_to_rbc: spreadsheet files and rubric names.             *)
(***************************************************************************)
\* a name of the given length whose characters tell their position
NumberedName(len) == [i \in 1..len |-> Digits[(i % 10) + 1]]

Name26x == NumberedName(ScaleNameMax) \o <<"x">>

Name26y == NumberedName(ScaleNameMax) \o <<"y">>

\* scale columns (two of them differ only after the 25th character) and a
\* column that is no scale column
ColumnPool ==
    <<<<"G", "o", "o", "d">> \o ScaleSuffix,
      <<"B", "a", "d">> \o ScaleSuffix,
      Name26x \o ScaleSuffix,
      Name26y \o ScaleSuffix,
      <<"N", "o", "t", "e", "s">>>>

RECURSIVE PickFrom(_, _, _)
\* the elements of pool at the indexes in idxs, from index i on, in pool order
PickFrom(pool, idxs, i) ==
    IF i > Len(pool) THEN <<>>
    ELSE (IF i \in idxs THEN <<pool[i]>> ELSE <<>>) \o PickFrom(pool, idxs, i + 1)

ColumnLayouts ==
    {PickFrom(ColumnPool, idxs, 1) :
        idxs \in {x \in SUBSET (1..Len(ColumnPool)) : Cardinality(x) <= MaxScaleCols}}

RowKinds == {"full", "empty", "ragged", "exact"}

\* the criterion label cell of a row of the given kind
LabelOf(kind) ==
    CASE kind = "full" -> Str(<<"A", "n", "a", "l", "y", "s", "i", "s", "\n", "D", "e", "e", "p", " ", "d", "i", "v", "e">>)
      [] kind = "empty" -> Str(<<"A", "r", "g", "u", "m", "e", "n", "t", "a", "t", "i", "o", "n", "1">>)
      [] kind = "ragged" -> Str(<<>>)
      [] kind = "titled" -> Str(<<"C", "l", "a", "r", "i", "t", "y", "\n", "I", "s", " ", "i", "t", " ", "c", "l", "e", "a", "r">>)
      [] OTHER -> Str(<<"P", "r", "e", "s", "e", "n", "t", "a", "t", "i", "o", "n", "1", "\n">>)

\* the cell of row r under the j-th column after the label
CellOf(kind, r, j) ==
    CASE kind = "full" -> Str(<<"r", Digits[r + 1], "c", Digits[j + 1], " ", "[", Digits[j + 1], "]">>)
      [] kind = "empty" -> Str(<<>>)
      [] kind = "ragged" -> IF j = 1 THEN Str(<<>>) ELSE Str(<<"[", Digits[r + 1], ".", "5", "]">>)
      [] kind = "titled" -> IF j = 1 THEN Str(<<"T", "o", "p", ":", " ", "a", "l", "l", " ", "c", "l", "e", "a", "r", " ", "[", "2", "]">>)
                            ELSE IF j = 2 THEN Str(<<" ">>)
                            ELSE Str(<<"x", ":", "y">>)
      [] OTHER -> Str(<<"o", "k", Digits[j + 1]>>)

GridOf(has_label, layout, kinds) ==
    [exists |-> TRUE,
     columns |-> (IF has_label THEN <<CriterionColumn>> ELSE <<>>) \o layout,
     rows |-> [r \in 1..Len(kinds) |->
                  (IF has_label THEN <<LabelOf(kinds[r])>> ELSE <<>>)
                      \o [j \in 1..Len(layout) |-> CellOf(kinds[r], r, j)]]]

GridInputs ==
    {GridOf(has_label, layout, kinds) :
        has_label \in BOOLEAN,
        layout \in ColumnLayouts,
        kinds \in UNION {[1..k -> RowKinds] : k \in 0..MaxRows}}

Base31 == <<"m", "y", "_">> \o NumberedName(RubricNameMax - 2)

NameInputs ==
    {[base |-> <<"m", "y", "_", "r", "u", "b", "r", "i", "c">>, override |-> None],
     [base |-> Base31, override |-> None],
     [base |-> Base31, override |-> Str(<<>>)],
     [base |-> <<"x">>, override |-> Str(NumberedName(RubricNameMax))],
     [base |-> <<"x">>, override |-> Str(NumberedName(RubricNameMax + 10))]}

NoMem == [doc |-> None, warnings |-> <<>>]

(***************************************************************************)
(* excel_to_rbc as a state machine: the document is built in memory, then  *)
(* written to the output path, then the truncation warnings are printed.   *)
(***************************************************************************)
InitExcelToRbc ==
    /\ pc = "x2r_start"
    /\ op = "excel_to_rbc"
    /\ arg \in NameInputs
    /\ xlsx \in GridInputs
    /\ json = NoJson
    /\ mem = NoMem
    /\ res = ""
    /\ stderr = <<>>

ExcelToRbcBuild ==
    /\ pc = "x2r_start"
    /\ LET built == excel_to_rbc(read_excel(xlsx), arg.base, arg.override)
       IN IF built.ok
          THEN /\ mem' = [doc |-> built.doc, warnings |-> built.warnings]
               /\ pc' = "x2r_built"
               /\ res' = res
          ELSE /\ mem' = mem
               /\ pc' = "failed"
               /\ res' = built.error
    /\ UNCHANGED <<op, arg, xlsx, json, stderr>>

ExcelToRbcWrite ==
    /\ pc = "x2r_built"
    /\ json' = [exists |-> TRUE, doc |-> mem.doc]
    /\ pc' = "x2r_written"
    /\ UNCHANGED <<op, arg, res, mem, xlsx, stderr>>

ExcelToRbcReport ==
    /\ pc = "x2r_written"
    /\ stderr' = stderr \o mem.warnings
    /\ pc' = "done"
    /\ UNCHANGED <<op, arg, res, mem, xlsx, json>>

NextExcelToRbc == ExcelToRbcBuild \/ ExcelToRbcWrite \/ ExcelToRbcReport

SpecExcelToRbc == InitExcelToRbc /\ [][NextExcelToRbc]_vars

(***************************************************************************)
(* rbc_to_excel as a state machine: the grid is built in memory from the   *)
(* document read (an IMS document by ims_to_excel), then written.          *)
(***************************************************************************)
NoGrid == [columns |-> <<>>, rows |-> <<>>]

\* the same opening the output file before the grid is built
RbcToExcelBuild_open_first ==
    /\ pc = "r2x_start"
    /\ xlsx' = to_excel(<<>>, <<>>)
    /\ LET built == rbc_to_excel(json.doc)
       IN IF built.ok
          THEN /\ mem' = [columns |-> built.columns, rows |-> built.rows]
               /\ pc' = "r2x_built"
               /\ res' = res
          ELSE /\ mem' = mem
               /\ pc' = "failed"
               /\ res' = built.error
    /\ UNCHANGED <<op, arg, json, stderr>>

RbcToExcelBuild ==
    /\ pc = "r2x_start"
    /\ LET built == rbc_to_excel(json.doc)
       IN IF built.ok
          THEN /\ mem' = [columns |-> built.columns, rows |-> built.rows]
               /\ pc' = "r2x_built"
               /\ res' = res
          ELSE /\ mem' = mem
               /\ pc' = "failed"
               /\ res' = built.error
    /\ UNCHANGED <<op, arg, xlsx, json, stderr>>

RbcToExcelWrite ==
    /\ pc = "r2x_built"
    /\ xlsx' = to_excel(mem.columns, mem.rows)
    /\ pc' = "r2x_done"
    /\ UNCHANGED <<op, arg, res, mem, json, stderr>>

(***************************************************************************)
(* Inputs of the round trip: RBC documents whose criteria and scales are   *)
(* drawn from pools that hold a repeated identifier, a repeated scale name *)
(* and two scale names that differ only after the 25th character.          *)
(***************************************************************************)
Criterion(id, name, description, position) ==
    [id |-> id, name |-> Str(name), description |-> description, position |-> position]

Scale(id, name, position) == [id |-> id, name |-> Str(name), position |-> position]

CriterionPool ==
    <<Criterion(1, <<"T", "h", "e", "s", "i", "s">>, Str(<<"C", "l", "e", "a", "r", " ", "c", "l", "a", "i", "m">>), 2),
      Criterion(2, <<"E", "v", "i", "d", "e", "n", "c", "e">>, Missing, 1),
      Criterion(1, <<"S", "t", "y", "l", "e">>, None, 3),
      Criterion(4, <<>>, Str(<<>>), 4)>>

ScalePool ==
    <<Scale(10, <<"G", "o", "o", "d">>, 2),
      Scale(11, <<"B", "a", "d">>, 1),
      Scale(12, <<"G", "o", "o", "d">>, 3),
      Scale(13, Name26x, 4),
      Scale(14, Name26y, 4),
      Scale(10, <<"F", "a", "i", "r">>, 0)>>

CellPatterns == {"all", "some", "none"}

\* the cell record of a criterion under a scale
CellInput(c, s) ==
    [criterion |-> c.id, scale_value |-> s.id,
     description |-> IF s.id % 2 = 1 THEN Missing ELSE Str(<<"d", Digits[c.id + 1]>>),
     value |-> IF c.id = 2 THEN FloatV(25, 1) ELSE IntV(s.id - 10)]

RECURSIVE CellInputsOf(_, _, _, _)
\* the cell records of the criteria from the r-th on, row by row
CellInputsOf(pattern, criteria, scales, r) ==
    IF r > Len(criteria) THEN <<>>
    ELSE SelectSeq([j \in 1..Len(scales) |-> CellInput(criteria[r], scales[j])],
                   LAMBDA cs : \/ pattern = "all"
                               \/ pattern = "some" /\ (cs.criterion + cs.scale_value) % 2 = 0)
            \o CellInputsOf(pattern, criteria, scales, r + 1)

RbcDoc(criteria, scales, pattern) ==
    [kind |-> "object", keys |-> RbcKeys, type |-> None, attype |-> None,
     Rubric |-> <<[name |-> Str(<<"r">>)]>>,
     RubricCriterion |-> criteria,
     RubricScale |-> scales,
     RubricCriterionScale |-> CellInputsOf(pattern, criteria, scales, 1)]

RbcDocInputs ==
    {RbcDoc(PickFrom(CriterionPool, cidxs, 1), PickFrom(ScalePool, sidxs, 1), pattern) :
        cidxs \in {x \in SUBSET (1..Len(CriterionPool)) : Cardinality(x) <= MaxRows},
        sidxs \in {x \in SUBSET (1..Len(ScalePool)) : Cardinality(x) <= MaxScaleCols},
        pattern \in CellPatterns}

(***************************************************************************)
(* The round trip: rbc_to_excel on a document, then excel_to_rbc on the    *)
(* spreadsheet it wrote.  arg keeps the document given.                    *)
(***************************************************************************)
InitRoundTrip ==
    /\ pc = "r2x_start"
    /\ op = "round_trip"
    /\ arg \in {[base |-> <<"m", "y", "_", "r", "u", "b", "r", "i", "c">>,
                 override |-> None, doc |-> d] : d \in RbcDocInputs}
    /\ json = [exists |-> TRUE, doc |-> arg.doc]
    /\ xlsx = NoXlsx
    /\ mem = NoGrid
    /\ res = ""
    /\ stderr = <<>>

\* main is run again, on the spreadsheet written
RunExcelToRbc ==
    /\ pc = "r2x_done"
    /\ op = "round_trip"
    /\ pc' = "x2r_start"
    /\ UNCHANGED <<op, arg, res, mem, xlsx, json, stderr>>

NextRoundTrip ==
    \/ RbcToExcelBuild
    \/ RbcToExcelWrite
    \/ RunExcelToRbc
    \/ ExcelToRbcBuild
    \/ ExcelToRbcWrite
    \/ ExcelToRbcReport

SpecRoundTrip == InitRoundTrip /\ [][NextRoundTrip]_vars

(***************************************************************************)
(* Inputs of ims_to_excel: IMS documents in the CFRubric and in the legacy *)
(* key names.  The first level of the first criterion ranges over the      *)
(* values its fields may hold; the other levels are plain.                 *)
(***************************************************************************)
Level(Description, description, title, score, points) ==
    [Description |-> Description, description |-> description, title |-> title,
     score |-> score, points |-> points]

LevelInputs ==
    {Level(D, d, t, sc, pt) :
        D \in {Missing, Str(<<>>), Str(<<"d">>)},
        d \in {Missing, Str(<<"e">>)},
        t \in {Missing, Str(<<"t">>)},
        sc \in {Missing, None, Str(<<>>), Str(<<"x">>), Str(<<"2">>), Str(<<"2", ".", "5">>),
                IntV(0)},
        pt \in {Missing, None, IntV(0), Str(<<"3">>)}}

\* the i-th level of a criterion, in the key names of the style
PlainLevel(style, i) ==
    IF style = "legacy"
    THEN Level(Missing, Str(<<"l", Digits[i + 1]>>), Str(<<"t">>), Missing, IntV(i))
    ELSE Level(Str(<<"L", Digits[i + 1]>>), Missing, Missing, Str(<<Digits[i + 1]>>), Missing)

PlainLevels(style, from, to) == [i \in 1..(to - from + 1) |-> PlainLevel(style, from + i - 1)]

\* a criterion with the given levels; a legacy criterion without levels has
\* no levels key, a CFRubric criterion holds a legacy key that is not read
ImsCriterion(style, r, levels) ==
    IF style = "legacy"
    THEN [has_cf |-> FALSE, cf_levels |-> <<>>,
          has_levels |-> levels # <<>>, levels |-> levels,
          Description |-> Missing, title |-> Str(<<"T", Digits[r + 1]>>),
          description |-> Str(<<"a", "b", "o", "u", "t">>)]
    ELSE [has_cf |-> TRUE, cf_levels |-> levels,
          has_levels |-> TRUE, levels |-> PlainLevels("legacy", 1, MaxLevels + 1),
          Description |-> Str(<<"C", Digits[r + 1]>>), title |-> Missing,
          description |-> Missing]

PlainLevelLists(style) == {PlainLevels(style, 1, k) : k \in 0..MaxLevels}

\* criteria lists of plain levels
PlainCriteriaInputs(style) ==
    {[r \in 1..Len(lists) |-> ImsCriterion(style, r, lists[r])] :
        lists \in UNION {[1..k -> PlainLevelLists(style)] : k \in 0..MaxRows}}

\* criteria lists whose first criterion starts with a level of LevelInputs
FreeCriteriaInputs ==
    {<<ImsCriterion("cf", 1, <<lv>> \o PlainLevels("cf", 2, k))>>
        \o [r \in 1..n |-> ImsCriterion("cf", r + 1, PlainLevels("cf", 1, m))] :
        lv \in LevelInputs, k \in 1..MaxLevels, n \in 0..(MaxRows - 1), m \in 0..MaxLevels}

ImsStyles == {"cf", "legacy", "both"}

\* a document of the style: "both" holds the CFRubric key and a legacy key
\* that is not read
ImsDoc(style, criteria) ==
    [kind |-> "object",
     keys |-> CASE style = "cf" -> {"CFRubricCriterion", "Title"}
                [] style = "legacy" -> {"criteria", "title"}
                [] OTHER -> {"CFRubricCriterion", "criteria"},
     type |-> None, attype |-> None,
     CFRubricCriterion |-> IF style = "legacy" THEN <<>> ELSE criteria,
     criteria |-> IF style = "cf" THEN <<>>
                  ELSE IF style = "legacy" THEN criteria
                  ELSE <<ImsCriterion("legacy", 1, PlainLevels("legacy", 1, 1))>>]

ImsDocInputs ==
    {ImsDoc("cf", criteria) : criteria \in FreeCriteriaInputs}
    \cup UNION {{ImsDoc(style, criteria) : criteria \in PlainCriteriaInputs(style)} :
                   style \in ImsStyles}

(***************************************************************************)
(* ims_to_excel, reached through rbc_to_excel on an IMS document.          *)
(***************************************************************************)
InitIms ==
    /\ pc = "r2x_start"
    /\ op = "ims_to_excel"
    /\ arg = Idle
    /\ json \in {[exists |-> TRUE, doc |-> d] : d \in ImsDocInputs}
    /\ xlsx = NoXlsx
    /\ mem = NoGrid
    /\ res = ""
    /\ stderr = <<>>

NextIms == RbcToExcelBuild \/ RbcToExcelWrite

SpecIms == InitIms /\ [][NextIms]_vars

(***************************************************************************)
(* excel_to_ims as a state machine: the document is built in memory, then  *)
(* written to the output path.                                             *)
(***************************************************************************)
ImsRowKinds == {"empty", "ragged", "exact", "titled"}

ImsGridInputs ==
    {GridOf(has_label, layout, kinds) :
        has_label \in BOOLEAN,
        layout \in ColumnLayouts,
        kinds \in UNION {[1..k -> ImsRowKinds] : k \in 0..MaxRows}}

ImsNameInputs ==
    {[base |-> <<"m", "y", "_", "r", "u", "b", "r", "i", "c">>, override |-> o,
      use_cf_format |-> b] :
        o \in {None, Str(<<"E", "s", "s", "a", "y", " ", "1">>)}, b \in BOOLEAN}

InitExcelToIms ==
    /\ pc = "x2i_start"
    /\ op = "excel_to_ims"
    /\ arg \in ImsNameInputs
    /\ xlsx \in ImsGridInputs
    /\ json = NoJson
    /\ mem = NoMem
    /\ res = ""
    /\ stderr = <<>>

ExcelToImsBuild ==
    /\ pc = "x2i_start"
    /\ LET built == excel_to_ims(read_excel(xlsx), arg.base, arg.override, arg.use_cf_format)
       IN IF built.ok
          THEN /\ mem' = [doc |-> built.doc, warnings |-> <<>>]
               /\ pc' = "x2i_built"
               /\ res' = res
          ELSE /\ mem' = mem
               /\ pc' = "failed"
               /\ res' = built.error
    /\ UNCHANGED <<op, arg, xlsx, json, stderr>>

ExcelToImsWrite ==
    /\ pc = "x2i_built"
    /\ json' = [exists |-> TRUE, doc |-> mem.doc]
    /\ pc' = "done"
    /\ UNCHANGED <<op, arg, res, mem, xlsx, stderr>>

NextExcelToIms == ExcelToImsBuild \/ ExcelToImsWrite

SpecExcelToIms == InitExcelToIms /\ [][NextExcelToIms]_vars

(***************************************************************************)
(* The four conversions together, as main dispatches them on the extension *)
(* of the input file and the format option.                                *)
(***************************************************************************)
ConvGridInputs ==
    {GridOf(has_label, layout, kinds) :
        has_label \in BOOLEAN,
        layout \in ColumnLayouts,
        kinds \in UNION {[1..k -> {"full", "empty"}] : k \in 0..MaxRows}}

\* RBC documents, some of them without a collection that rbc_to_excel reads
ConvRbcInputs ==
    RbcDocInputs
    \cup {[d EXCEPT !.keys = ks] :
            d \in {RbcDoc(PickFrom(CriterionPool, {1, 2}, 1), PickFrom(ScalePool, {1, 2}, 1), "all")},
            ks \in {{"Rubric", "RubricCriterion"}, {"Rubric", "RubricCriterion", "RubricScale"}}}

ConvImsInputs ==
    UNION {{ImsDoc(style, criteria) : criteria \in PlainCriteriaInputs(style)} :
             style \in ImsStyles}

InitConversions ==
    /\ res = ""
    /\ stderr = <<>>
    /\ \/ /\ op = "excel_to_rbc"
          /\ pc = "x2r_start"
          /\ arg = [base |-> Base31, override |-> None]
          /\ xlsx \in ConvGridInputs
          /\ json = NoJson
          /\ mem = NoMem
       \/ /\ op = "excel_to_ims"
          /\ pc = "x2i_start"
          /\ arg = [base |-> Base31, override |-> None, use_cf_format |-> TRUE]
          /\ xlsx \in ConvGridInputs
          /\ json = NoJson
          /\ mem = NoMem
       \/ /\ op = "rbc_to_excel"
          /\ pc = "r2x_start"
          /\ arg = Idle
          /\ json \in {[exists |-> TRUE, doc |-> d] : d \in ConvRbcInputs}
          /\ xlsx = NoXlsx
          /\ mem = NoGrid
       \/ /\ op = "ims_to_excel"
          /\ pc = "r2x_start"
          /\ arg = Idle
          /\ json \in {[exists |-> TRUE, doc |-> d] : d \in ConvImsInputs}
          /\ xlsx = NoXlsx
          /\ mem = NoGrid

NextConversions ==
    \/ ExcelToRbcBuild
    \/ ExcelToRbcWrite
    \/ ExcelToRbcReport
    \/ ExcelToImsBuild
    \/ ExcelToImsWrite
    \/ RbcToExcelBuild
    \/ RbcToExcelWrite

SpecConversions == InitConversions /\ [][NextConversions]_vars

(***************************************************************************)
(* excel_to_rbc called twice in one process, on two grids: arg.call counts *)
(* the calls and arg.first keeps the document of the first call.           *)
(***************************************************************************)
SecondGridInputs ==
    {GridOf(TRUE, layout, kinds) :
        layout \in {PickFrom(ColumnPool, {1}, 1), PickFrom(ColumnPool, {1, 2}, 1)},
        kinds \in {<<"full">>, <<"empty", "full">>}}

InitTwice ==
    /\ pc = "x2r_start"
    /\ op = "excel_to_rbc"
    /\ arg = [base |-> Base31, override |-> None, call |-> 1, first |-> None]
    /\ xlsx \in ConvGridInputs
    /\ json = NoJson
    /\ mem = NoMem
    /\ res = ""
    /\ stderr = <<>>

\* the caller converts another spreadsheet
CallAgain ==
    /\ pc \in {"done", "failed"}
    /\ arg.call = 1
    /\ arg' = [arg EXCEPT !.call = 2, !.first = json.doc]
    /\ xlsx' \in SecondGridInputs
    /\ mem' = NoMem
    /\ res' = ""
    /\ pc' = "x2r_start"
    /\ UNCHANGED <<op, json, stderr>>

NextTwice == ExcelToRbcBuild \/ ExcelToRbcWrite \/ ExcelToRbcReport \/ CallAgain

SpecTwice == InitTwice /\ [][NextTwice]_vars

(***************************************************************************)
(* The interactive host (app.py).  mem holds the reactive values of the    *)
(* session and the effects waiting to run, arg the upload and the values   *)
(* of the two input widgets, xlsx the uploaded spreadsheet, json the files *)
(* at the three output paths; pc is "idle" or "flush".  The order in which *)
(* the effects invalidated by one input change run is left open.           *)
(***************************************************************************)
NoFile == [exists |-> FALSE, doc |-> None]

NoDisk == [rbc |-> NoFile, ims |-> NoFile, xlsx |-> NoFile]

\* get_output_filename: the output path, named by its extension
get_output_filename(ext, output_format) ==
    IF ext \in {"rbc", "json"} THEN "xlsx"
    ELSE IF output_format = "ims" THEN "ims" ELSE "rbc"

UploadName == <<"m", "y", "_", "r", "u", "b", "r", "i", "c">>

\* the files a user uploads: spreadsheets (one without the criterion
\* column), an RBC document, an IMS document without criteria, a text file
UploadInputs ==
    {[ext |-> "xlsx", grid |-> g, doc |-> None] :
        g \in {GridOf(TRUE, PickFrom(ColumnPool, {1, 2}, 1), <<"full">>),
               GridOf(TRUE, PickFrom(ColumnPool, {1}, 1), <<"full", "full">>),
               GridOf(FALSE, PickFrom(ColumnPool, {1}, 1), <<"full">>)}}
    \cup {[ext |-> "rbc", grid |-> NoXlsx, doc |-> d] :
            d \in {RbcDoc(PickFrom(CriterionPool, {1, 2}, 1), PickFrom(ScalePool, {1, 2}, 1), "all"),
                   ImsDoc("cf", <<>>)}}
    \cup {[ext |-> "txt", grid |-> NoXlsx, doc |-> None]}

\* the texts a user types into the rubric-name field
NameFieldInputs ==
    {Replace(UploadName, "_", " "), <<"E", "s", "s", "a", "y", " ", "1">>, <<>>}

FormatInputs == {"turnitin", "ims"}

NoSession ==
    [converted_file |-> "", converted_name |-> "", status_message |-> "",
     uploaded_excel |-> FALSE, uploaded_excel_name |-> <<>>,
     rubric_name_value |-> <<>>, output_format |-> "turnitin", pending |-> {}]

InitApp ==
    /\ pc = "idle"
    /\ op = "app"
    /\ arg = [file |-> [ext |-> "", grid |-> NoXlsx, doc |-> None],
              rubricname |-> <<>>, output_format |-> "turnitin"]
    /\ mem = NoSession
    /\ xlsx = NoXlsx
    /\ json = NoDisk
    /\ res = ""
    /\ stderr = <<>>

\* the values the handlers of the upload effect set when no spreadsheet is
\* kept
Reset(session, message, file, name) ==
    [session EXCEPT !.status_message = message, !.converted_file = file,
                    !.converted_name = name, !.uploaded_excel = FALSE,
                    !.uploaded_excel_name = <<>>, !.rubric_name_value = <<>>,
                    !.output_format = "turnitin"]

\* a file is uploaded and the upload effect runs; for a spreadsheet the two
\* widgets are rendered with their defaults, which the browser reports
Upload ==
    /\ pc = "idle"
    /\ \E f \in UploadInputs :
         LET Handle(outpath, built) ==
            IF f.ext \notin {"rbc", "xlsx", "json"}
            THEN /\ mem' = Reset(mem, "Unsupported file type.", "", "")
                 /\ arg' = [arg EXCEPT !.file = f]
                 /\ UNCHANGED <<xlsx, json, pc>>
            ELSE IF f.ext = "xlsx"
            THEN /\ mem' = [mem EXCEPT !.uploaded_excel = TRUE,
                                       !.uploaded_excel_name = UploadName,
                                       !.rubric_name_value = Replace(UploadName, "_", " "),
                                       !.status_message = "Excel file uploaded.",
                                       !.converted_file = "",
                                       !.converted_name = "",
                                       !.output_format = "turnitin",
                                       !.pending = {"convert", "set_name"}]
                 /\ arg' = [file |-> f, rubricname |-> Replace(UploadName, "_", " "),
                            output_format |-> "turnitin"]
                 /\ xlsx' = f.grid
                 /\ json' = [json EXCEPT ![outpath] = NoFile]
                 /\ pc' = "flush"
            ELSE /\ arg' = [arg EXCEPT !.file = f]
                 /\ IF built.ok
                    THEN /\ json' = [json EXCEPT ![outpath] =
                                        [exists |-> TRUE,
                                         doc |-> [columns |-> built.columns, rows |-> built.rows]]]
                         /\ mem' = Reset(mem, "Conversion successful.", outpath, outpath)
                    ELSE /\ json' = [json EXCEPT ![outpath] = NoFile]
                         /\ mem' = Reset(mem, "Conversion failed.", "", "")
                 /\ UNCHANGED <<xlsx, pc>>
         IN Handle(get_output_filename(f.ext, "turnitin"), rbc_to_excel(f.doc))
    /\ UNCHANGED <<op, res, stderr>>

\* the user edits the rubric-name field: the conversion effect and the
\* effect that copies the field are invalidated
ChangeName ==
    /\ pc = "idle"
    /\ mem.uploaded_excel
    /\ \E n \in NameFieldInputs :
         /\ n # arg.rubricname
         /\ arg' = [arg EXCEPT !.rubricname = n]
    /\ mem' = [mem EXCEPT !.pending = {"convert", "set_name"}]
    /\ pc' = "flush"
    /\ UNCHANGED <<op, res, xlsx, json, stderr>>

\* the user picks the other output format: the conversion effect is
\* invalidated
ChangeFormat ==
    /\ pc = "idle"
    /\ mem.uploaded_excel
    /\ \E f \in FormatInputs :
         /\ f # arg.output_format
         /\ arg' = [arg EXCEPT !.output_format = f]
    /\ mem' = [mem EXCEPT !.pending = {"convert"}]
    /\ pc' = "flush"
    /\ UNCHANGED <<op, res, xlsx, json, stderr>>

\* the document of the conversion the effect runs
Converted(fmt, rubric_name) ==
    IF fmt = "ims"
    THEN excel_to_ims(read_excel(xlsx), <<"0">>, Str(rubric_name), TRUE)
    ELSE LET Result(built) == [ok |-> built.ok, error |-> built.error, doc |-> built.doc]
         IN Result(excel_to_rbc(read_excel(xlsx), <<"0">>, Str(rubric_name)))

\* the rubric name the conversion effect converts with
NameConverted == mem.rubric_name_value

\* the conversion effect
RunConvert ==
    /\ pc = "flush"
    /\ "convert" \in mem.pending
    /\ LET left == mem.pending \ {"convert"}
           Run(rubric_name, fmt, outpath, built) ==
             IF mem.uploaded_excel /\ rubric_name # <<>>
             THEN IF built.ok
                  THEN /\ json' = [json EXCEPT ![outpath] = [exists |-> TRUE, doc |-> built.doc]]
                       /\ mem' = [mem EXCEPT !.output_format = fmt,
                                             !.status_message = "Conversion successful.",
                                             !.converted_file = outpath,
                                             !.converted_name = outpath,
                                             !.pending = left]
                  ELSE /\ json' = [json EXCEPT ![outpath] = NoFile]
                       /\ mem' = [mem EXCEPT !.output_format = fmt,
                                             !.status_message = "Conversion failed.",
                                             !.converted_file = "",
                                             !.converted_name = "",
                                             !.pending = left]
             ELSE /\ json' = json
                  /\ mem' = [mem EXCEPT !.pending = left]
       IN /\ pc' = IF left = {} THEN "idle" ELSE "flush"
          /\ Run(NameConverted, arg.output_format,
                 get_output_filename("xlsx", arg.output_format),
                 Converted(arg.output_format, NameConverted))
    /\ UNCHANGED <<op, arg, res, xlsx, stderr>>

\* the effect that copies the rubric-name field into rubric_name_value
RunSetName ==
    /\ pc = "flush"
    /\ "set_name" \in mem.pending
    /\ LET left == mem.pending \ {"set_name"}
       IN /\ mem' = [mem EXCEPT !.rubric_name_value = arg.rubricname, !.pending = left]
          /\ pc' = IF left = {} THEN "idle" ELSE "flush"
    /\ UNCHANGED <<op, arg, res, xlsx, json, stderr>>

NextApp == Upload \/ ChangeName \/ ChangeFormat \/ RunConvert \/ RunSetName

SpecApp == InitApp /\ [][NextApp]_vars

(***************************************************************************)
(* Claims about the format detector (checked under SpecDetect).            *)
(***************************************************************************)
RubricText == Str(<<"R", "u", "b", "r", "i", "c">>)

\* C1: is_ims_format returns true exactly for a JSON object that has a
\* CFRubricCriterion key, a criteria key, or a type / @type field equal to
\* "Rubric", and has neither a Rubric nor a RubricCriterion key; it returns
\* false for every other document, every non-object included.
C1_DetectsIms ==
    (op = "detect" /\ pc = "done") =>
        (res <=>
            /\ arg.kind = "object"
            /\ \/ "CFRubricCriterion" \in arg.keys
               \/ "criteria" \in arg.keys
               \/ ("type" \in arg.keys /\ arg.type = RubricText)
               \/ ("@type" \in arg.keys /\ arg.attype = RubricText)
            /\ "Rubric" \notin arg.keys
            /\ "RubricCriterion" \notin arg.keys)

\* C1 witness: a document with both Rubric and criteria was classified RBC.
C1_Witness ==
    /\ op = "detect" /\ pc = "done"
    /\ arg.kind = "object"
    /\ {"Rubric", "criteria"} \subseteq arg.keys
    /\ res = FALSE

(***************************************************************************)
(* Claims about the cell grammar (checked under SpecCell).                 *)
(***************************************************************************)
DescAbsent(d) == d = None \/ d = Str(<<>>)

ValueAbsent(v) == v = None \/ v = Str(<<>>)

IsZero(v) == IsNum(v) /\ v.n = 0

RoundTripped == op = "format" /\ pc = "done"

\* C2 as stated: parse_cell(format_cell(d, v)) reproduces (d, v) for every
\* pair except value 0 with an empty or absent description.
C2_Original ==
    (RoundTripped /\ ~(IsZero(arg.value) /\ DescAbsent(arg.desc))) =>
        (PyEq(res.desc, arg.desc) /\ PyEq(res.value, arg.value))

\* a description the grammar can carry: none, or a non-empty single-line text
\* with no "[" and no blank at either end
CleanDesc(d) ==
    \/ d = None
    \/ /\ IsStr(d) /\ d.s # <<>>
       /\ Strip(d.s) = d.s
       /\ ~HasChar(d.s, "[")
       /\ ~HasChar(d.s, NL)

\* C2 as amended: for a numeric value and a description that is none or a
\* non-empty single-line text without "[" and without blanks at its ends,
\* parse_cell(format_cell(d, v)) reproduces the pair (the value as an equal
\* number), value 0 with an absent description included.
C2_RoundTrip ==
    (RoundTripped /\ IsNum(arg.value) /\ CleanDesc(arg.desc)) =>
        (res.desc = arg.desc /\ PyEq(res.value, arg.value))

\* C2 witness: a description with a fractional value came back unchanged.
C2_Witness ==
    /\ RoundTripped
    /\ arg.desc = Str(<<"a", "]">>) /\ arg.value = FloatV(15, 1)
    /\ res.text = Str(<<"a", "]", " ", "[", "1", ".", "5", "]">>)
    /\ res.desc = arg.desc /\ res.value = arg.value

\* the parses the grammar is specified to give for a text: (none, 0) for empty
\* or non-text input; otherwise the trailing bracketed token runs from a "["
\* to the "]" that ends the trimmed text (with several "[" every choice is
\* admitted), the description is the trimmed text before it, and the value is
\* the token's number, its raw text, or 0 when it is absent or empty
ParseWithTokenAt(t, p) ==
    LET d == Strip(SubSeq(t, 1, p - 1))
        inner == SubSeq(t, p + 1, Len(t) - 1)
    IN [desc |-> IF d = <<>> THEN None ELSE Str(d),
        value |-> IF p > Len(t) \/ inner = <<>> THEN IntV(0)
                  ELSE IF IsFloatText(inner) THEN FloatOrInt(inner)
                  ELSE Str(inner)]

SpecifiedParses(cell) ==
    IF ~IsStr(cell) \/ Strip(cell.s) = <<>> THEN {[desc |-> None, value |-> IntV(0)]}
    ELSE LET t == Strip(cell.s)
             opens == IF t[Len(t)] = "]" THEN {i \in 1..Len(t) : t[i] = "["} ELSE {}
         IN IF opens = {} THEN {ParseWithTokenAt(t, Len(t) + 1)}
            ELSE {ParseWithTokenAt(t, p) : p \in opens}

\* C3: parse_cell gives (none, 0) for empty or non-text input; for every other
\* text, multi-line text and text with several bracket pairs included, the
\* description is the trimmed text before the trailing bracketed token (none
\* when empty) and the value is the number in the token (an integer when it
\* has no fractional part), the raw bracket text when it is no number, and 0
\* when the bracket is absent or empty.
C3_ParseGrammar ==
    (pc = "done" /\ op \in {"parse", "format"}) =>
        [desc |-> res.desc, value |-> res.value] \in SpecifiedParses(res.text)

\* the part of C3 the code meets: the same for text of a single line
C3_SingleLine ==
    (pc = "done" /\ op \in {"parse", "format"}
        /\ IsStr(res.text) /\ ~HasChar(Strip(res.text.s), NL)) =>
        [desc |-> res.desc, value |-> res.value] \in SpecifiedParses(res.text)

ValueText(v) == PyStr(v)

\* C4: format_cell gives "{description} [{value}]" when both are present, the
\* description alone when the value is empty or absent, "[{value}]" when only
\* the value is present and the empty text when both are absent; a value of 0
\* with a description is written "{description} [0]".
C4_FormatCases ==
    (op = "format" /\ pc \in {"formatted", "done"}) =>
        LET d == arg.desc
            v == arg.value
        IN /\ (~DescAbsent(d) /\ ~ValueAbsent(v)) =>
                  res.text = Str(d.s \o <<" ", "[">> \o ValueText(v) \o <<"]">>)
           /\ (~DescAbsent(d) /\ ValueAbsent(v)) => res.text = d
           /\ (DescAbsent(d) /\ ~ValueAbsent(v)) =>
                  res.text = Str(<<"[">> \o ValueText(v) \o <<"]">>)
           /\ (DescAbsent(d) /\ ValueAbsent(v)) => res.text = Str(<<>>)
           /\ (~DescAbsent(d) /\ v = IntV(0)) =>
                  res.text = Str(d.s \o <<" ", "[", "0", "]">>)

\* C4 witness: a description with the value 0 was formatted.
C4_Witness ==
    /\ op = "format" /\ pc = "formatted"
    /\ arg.desc = Str(<<"a">>) /\ arg.value = IntV(0)
    /\ res.text = Str(<<"a", " ", "[", "0", "]">>)

\* C5 as stated: with the number 0 and no description format_cell produces
\* the empty text, which parse_cell reparses to (none, 0).
C5_Original ==
    (RoundTripped /\ arg.value = IntV(0) /\ DescAbsent(arg.desc)) =>
        /\ res.text = Str(<<>>)
        /\ res.desc = None /\ res.value = IntV(0)

\* C5 as amended: with the number 0 and no description format_cell produces
\* the text "[0]", which parse_cell reparses to (none, 0).
C5_ZeroWritten ==
    (RoundTripped /\ arg.value = IntV(0) /\ DescAbsent(arg.desc)) =>
        /\ res.text = Str(<<"[", "0", "]">>)
        /\ res.desc = None /\ res.value = IntV(0)

\* C5 witness: the pair (none, 0) went through format_cell and parse_cell.
C5_Witness ==
    /\ RoundTripped
    /\ arg.desc = None /\ arg.value = IntV(0)
    /\ res.text = Str(<<"[", "0", "]">>) /\ res.desc = None

(***************************************************************************)
(* Claims about excel_to_rbc (checked under SpecExcelToRbc).               *)
(***************************************************************************)
\* the document has been built (and perhaps written and reported)
Built == op = "excel_to_rbc" /\ pc \in {"x2r_built", "x2r_written", "done"}

\* the rows of the grid that are read: those up to the last row with a
\* non-empty cell
RowsRead ==
    LET filled == {r \in 1..Len(xlsx.rows) :
                      \E j \in 1..Len(xlsx.rows[r]) :
                          xlsx.rows[r][j] \notin {Str(<<>>), None}}
    IN IF filled = {} THEN 0 ELSE CHOOSE r \in filled : \A q \in filled : q <= r

CountWhere(seq, Test(_)) == Cardinality({i \in 1..Len(seq) : Test(seq[i])})

\* C6: the document excel_to_rbc produces holds exactly one criterion-scale
\* cell record for each (criterion, scale) pair, criteria x scales records in
\* total, and each criterion's criterion_scales lists exactly one cell
\* identifier per scale, in scale order, also for empty grid cells.
C6_CrossProduct ==
    Built =>
        LET crits == mem.doc.RubricCriterion
            scales == mem.doc.RubricScale
            cells == mem.doc.RubricCriterionScale
        IN /\ Len(crits) = RowsRead
           /\ Len(cells) = Len(crits) * Len(scales)
           /\ \A r \in 1..Len(crits) :
                /\ Len(crits[r].criterion_scales) = Len(scales)
                /\ \A j \in 1..Len(scales) :
                     /\ CountWhere(cells, LAMBDA cs : cs.criterion = crits[r].id
                                                      /\ cs.scale_value = scales[j].id) = 1
                     /\ CountWhere(cells, LAMBDA cs : cs.id = crits[r].criterion_scales[j]
                                                      /\ cs.criterion = crits[r].id
                                                      /\ cs.scale_value = scales[j].id) = 1
           /\ (json.exists => json.doc = mem.doc)

\* C6 witness: a grid of two rows and two scales with an empty row was
\* written as four cell records, some of them (none, 0).
C6_Witness ==
    /\ op = "excel_to_rbc" /\ pc = "done"
    /\ Len(xlsx.rows) = 2
    /\ Len(json.doc.RubricScale) = 2
    /\ Len(json.doc.RubricCriterionScale) = 4
    /\ \E k \in 1..4 : /\ json.doc.RubricCriterionScale[k].description = None
                       /\ json.doc.RubricCriterionScale[k].value = IntV(0)
                       /\ xlsx.rows[2][2] = Str(<<>>)

\* the first maxlen characters of a name that is longer, else the name
Cut(name, maxlen) == IF Len(name) > maxlen THEN [i \in 1..maxlen |-> name[i]] ELSE name

\* the names as given: the override or else the base name with spaces, the
\* scale column headers without their suffix, the first line of each label
GivenRubricName ==
    IF arg.override # None /\ arg.override # Str(<<>>) THEN arg.override.s
    ELSE Replace(arg.base, "_", " ")

GivenScaleNames ==
    LET cols == SelectSeq(xlsx.columns, LAMBDA c : EndsWith(c, ScaleSuffix))
    IN [i \in 1..Len(cols) |-> SubSeq(cols[i], 1, Len(cols[i]) - Len(ScaleSuffix))]

GivenCritNames ==
    [r \in 1..RowsRead |-> parse_criterion_cell(xlsx.rows[r][1]).name]

GivenNames(field) ==
    CASE field = "Rubric name" -> <<GivenRubricName>>
      [] field = "Scale name" -> GivenScaleNames
      [] OTHER -> GivenCritNames

LimitOf(field) ==
    CASE field = "Rubric name" -> RubricNameMax
      [] field = "Scale name" -> ScaleNameMax
      [] OTHER -> CritNameMax

\* how many names of the field are too long
TooLong(field) == CountWhere(GivenNames(field), LAMBDA x : Len(x) > LimitOf(field))

\* C10: the rubric name, every scale name and every criterion name of the
\* output are the first 30 / 25 / 13 characters of the given name when it is
\* longer and the given name otherwise; each truncated name has exactly one
\* warning citing the given and the truncated text, the others have none; the
\* warnings are printed only after the output is written, and truncation
\* never makes the conversion fail.
C10_Truncation ==
    /\ Built =>
        LET doc == mem.doc
            warnings == mem.warnings
        IN /\ doc.Rubric[1].name = Str(Cut(GivenRubricName, RubricNameMax))
           /\ {doc.RubricScale[j].name : j \in 1..Len(doc.RubricScale)}
                = {Str(Cut(GivenScaleNames[i], ScaleNameMax)) : i \in 1..Len(GivenScaleNames)}
           /\ Len(doc.RubricCriterion) = Len(GivenCritNames)
           /\ \A r \in 1..Len(doc.RubricCriterion) :
                doc.RubricCriterion[r].name = Str(Cut(GivenCritNames[r], CritNameMax))
           /\ Len(warnings) = TooLong("Rubric name") + TooLong("Scale name")
                                + TooLong("Criterion name")
           /\ \A i \in 1..Len(warnings) :
                LET w == warnings[i]
                IN /\ Len(w.original) > LimitOf(w.field)
                   /\ w.truncated = Cut(w.original, LimitOf(w.field))
                   /\ CountWhere(warnings, LAMBDA x : x = w)
                        = CountWhere(GivenNames(w.field), LAMBDA x : x = w.original)
    /\ (op = "excel_to_rbc" /\ pc # "done") => stderr = <<>>
    /\ (op = "excel_to_rbc" /\ pc = "done") =>
            (json.exists /\ json.doc = mem.doc /\ stderr = mem.warnings)
    /\ (op = "excel_to_rbc" /\ pc = "failed") =>
            \A j \in 1..Len(xlsx.columns) : xlsx.columns[j] # CriterionColumn

\* C10 witness: a rubric name of 40 characters was written with its first 30
\* characters, and exactly one warning, citing both, was printed after it.
C10_Witness ==
    /\ op = "excel_to_rbc" /\ pc = "done"
    /\ arg.override = Str(NumberedName(40))
    /\ json.doc.Rubric[1].name = Str(NumberedName(30))
    /\ stderr = <<Warning("Rubric name", NumberedName(40), NumberedName(30))>>

\* the grid column the j-th scale of the output was derived from: the first
\* scale column whose name, cut to 25 characters, is the name of the scale
SourceColumn(j) ==
    LET name == mem.doc.RubricScale[j].name.s
        from == {c \in 1..Len(xlsx.columns) :
                    /\ EndsWith(xlsx.columns[c], ScaleSuffix)
                    /\ Cut(SubSeq(xlsx.columns[c], 1, Len(xlsx.columns[c]) - Len(ScaleSuffix)),
                           ScaleNameMax) = name}
    IN CHOOSE c \in from : \A d \in from : c <= d

\* C11 as stated: for every grid row and every scale, the cell record of the
\* pair carries the (description, value) that parse_desc_value gives for the
\* cell of the row in the column the scale was derived from, whatever the
\* length of the column's name.
C11_CellLookup ==
    Built =>
        LET scales == mem.doc.RubricScale
            cells == mem.doc.RubricCriterionScale
        IN \A r \in 1..RowsRead : \A j \in 1..Len(scales) :
              LET cs == cells[(r - 1) * Len(scales) + j]
                  parsed == parse_desc_value(xlsx.rows[r][SourceColumn(j)])
              IN cs.description = parsed.desc /\ cs.value = parsed.value

\* C12 as stated: for every grid without the column "Criterion (name and
\* description)", whatever its number of data rows, zero included,
\* excel_to_rbc fails and writes no output file.
C12_MissingColumn ==
    (op = "excel_to_rbc" /\ \A j \in 1..Len(xlsx.columns) : xlsx.columns[j] # CriterionColumn)
        => (pc \in {"x2r_start", "failed"} /\ ~json.exists)

\* the index of the first scale column whose name, cut to 25 characters, is
\* the given name
FirstGiven(name) ==
    CHOOSE i \in 1..Len(GivenScaleNames) :
        /\ Cut(GivenScaleNames[i], ScaleNameMax) = name
        /\ \A q \in 1..(i - 1) : Cut(GivenScaleNames[q], ScaleNameMax) # name

\* C14: the scales of the output are the distinct scale names of the grid's
\* scale columns after truncation to 25 characters, in order of first
\* occurrence: columns whose names coincide after truncation give exactly one
\* scale, and the position (and num) of the j-th scale is j, so the positions
\* are 1..S without gaps.
C14_ScaleDedup ==
    Built =>
        LET scales == mem.doc.RubricScale
        IN /\ \A i, j \in 1..Len(scales) : scales[i].name = scales[j].name => i = j
           /\ {scales[j].name.s : j \in 1..Len(scales)}
                = {Cut(GivenScaleNames[i], ScaleNameMax) : i \in 1..Len(GivenScaleNames)}
           /\ \A i, j \in 1..Len(scales) :
                i < j => FirstGiven(scales[i].name.s) < FirstGiven(scales[j].name.s)
           /\ \A j \in 1..Len(scales) : scales[j].position = j /\ scales[j].num = j

\* C14 witness: two scale columns whose names differ only in the 26th
\* character gave one scale, named by the common 25 characters, at position 1.
C14_Witness ==
    /\ op = "excel_to_rbc" /\ pc = "done"
    /\ Len(GivenScaleNames) = 2
    /\ GivenScaleNames[1] # GivenScaleNames[2]
    /\ Len(json.doc.RubricScale) = 1
    /\ json.doc.RubricScale[1].name = Str(NumberedName(ScaleNameMax))
    /\ json.doc.RubricScale[1].position = 1

(***************************************************************************)
(* Claims about the round trip (checked under SpecRoundTrip).              *)
(***************************************************************************)
RoundTripDone == op = "round_trip" /\ pc = "done"

\* the output has as many criteria and scales as the document given, and
\* every criterion of the output has one cell per scale of the document given
SameCounts(given, output) ==
    /\ Len(output.RubricCriterion) = Len(given.RubricCriterion)
    /\ Len(output.RubricScale) = Len(given.RubricScale)
    /\ \A r \in 1..Len(output.RubricCriterion) :
         /\ Len(output.RubricCriterion[r].criterion_scales) = Len(given.RubricScale)
         /\ CountWhere(output.RubricCriterionScale,
                       LAMBDA cs : cs.criterion = output.RubricCriterion[r].id)
              = Len(given.RubricScale)

\* C7 as stated: for every RBC document with C criteria and S scales,
\* rbc_to_excel followed by excel_to_rbc gives a document with exactly C
\* criteria and S scales in which every criterion has exactly S cells.
C7_Original == RoundTripDone => SameCounts(arg.doc, json.doc)

Distinct(seq) == \A i, j \in 1..Len(seq) : seq[i] = seq[j] => i = j

\* the criteria have distinct identifiers and non-empty names; the scales
\* have distinct identifiers and names that differ within 25 characters
PlainRubric(doc) ==
    /\ Distinct(Ids(doc.RubricCriterion))
    /\ \A r \in 1..Len(doc.RubricCriterion) : doc.RubricCriterion[r].name # Str(<<>>)
    /\ Distinct(Ids(doc.RubricScale))
    /\ Distinct([j \in 1..Len(doc.RubricScale) |->
                    Cut(doc.RubricScale[j].name.s, ScaleNameMax)])

\* C7: for every RBC document with C criteria and S scales whose criteria
\* have pairwise distinct identifiers and non-empty names and whose scales
\* have pairwise distinct identifiers and names that stay pairwise distinct
\* when cut to 25 characters, rbc_to_excel followed by excel_to_rbc gives a
\* document with exactly C criteria and S scales in which every criterion has
\* exactly S cells, whether or not the document given holds a cell record
\* for every pair.
C7_RoundTrip == (RoundTripDone /\ PlainRubric(arg.doc)) => SameCounts(arg.doc, json.doc)

\* C7 witness: a document of two criteria and two scales that holds cell
\* records for some pairs only came back with two criteria, two scales and
\* four cell records.
C7_Witness ==
    /\ RoundTripDone
    /\ PlainRubric(arg.doc)
    /\ Len(arg.doc.RubricCriterion) = 2
    /\ Len(arg.doc.RubricScale) = 2
    /\ Len(arg.doc.RubricCriterionScale) \in 1..3
    /\ Len(json.doc.RubricCriterion) = 2
    /\ Len(json.doc.RubricScale) = 2
    /\ Len(json.doc.RubricCriterionScale) = 4

\* the spreadsheet rbc_to_excel wrote for the document given
GridWritten == op = "round_trip" /\ xlsx.exists

\* the index of the scale of the document given that stands in the j-th
\* scale column: the scale with j - 1 scales before it, a scale being before
\* another when its position is lower, or equal and it comes first
ScaleAt(j) ==
    LET scales == arg.doc.RubricScale
        Before(k, i) == \/ scales[k].position < scales[i].position
                        \/ scales[k].position = scales[i].position /\ k < i
    IN CHOOSE i \in 1..Len(scales) :
          Cardinality({k \in 1..Len(scales) : Before(k, i)}) = j - 1

\* the cell the grid should hold for the pair: format_desc_value of the last
\* cell record of the pair, the empty text when there is none
CellFor(c, s) ==
    LET cells == arg.doc.RubricCriterionScale
        hits == {i \in 1..Len(cells) :
                    cells[i].criterion = c.id /\ cells[i].scale_value = s.id}
    IN IF hits = {} THEN Str(<<>>)
       ELSE LET cs == cells[CHOOSE i \in hits : \A q \in hits : q <= i]
            IN format_desc_value(IF cs.description = Missing THEN Str(<<>>) ELSE cs.description,
                                 IF cs.value = Missing THEN Str(<<>>) ELSE cs.value)

\* the label the grid should hold for a criterion
LabelFor(c) ==
    IF c.description \in {Missing, None} \/ Strip(c.description.s) = <<>> THEN c.name
    ELSE Str(c.name.s \o <<NL>> \o Strip(c.description.s))

\* the grid has one column per scale by ascending position (ties in
\* collection order) and one row per criterion in collection order, each
\* cell being the cell of its (criterion, scale) pair
GridMatches ==
    LET scales == arg.doc.RubricScale
        crits == arg.doc.RubricCriterion
    IN /\ Len(xlsx.columns) = 1 + Len(scales)
       /\ xlsx.columns[1] = CriterionColumn
       /\ \A j \in 1..Len(scales) :
            xlsx.columns[1 + j] = scales[ScaleAt(j)].name.s \o ScaleSuffix
       /\ Len(xlsx.rows) = Len(crits)
       /\ \A r \in 1..Len(crits) :
            /\ Len(xlsx.rows[r]) = 1 + Len(scales)
            /\ xlsx.rows[r][1] = LabelFor(crits[r])
            /\ \A j \in 1..Len(scales) :
                 xlsx.rows[r][1 + j] = CellFor(crits[r], scales[ScaleAt(j)])

\* C18 as stated: for every RBC document rbc_to_excel writes one column per
\* scale in ascending order of position and one row per criterion in the
\* order of the RubricCriterion collection, with the formatted cell record of
\* each pair, and a missing description does not make it fail.
C18_Original == (op = "round_trip" => pc # "failed") /\ (GridWritten => GridMatches)

\* C18: for every RBC document whose criteria have pairwise distinct
\* identifiers and whose scales have pairwise distinct identifiers,
\* rbc_to_excel writes one column per scale in ascending order of position
\* (scales of equal position in collection order) and one row per criterion
\* in the order of the RubricCriterion collection, whatever the criteria's
\* positions; the cell of a pair is format_desc_value of the pair's last cell
\* record and the empty text when there is none; a criterion or cell record
\* without a description does not make the conversion fail.
C18_GridOrder ==
    /\ op = "round_trip" => pc # "failed"
    /\ (GridWritten /\ Distinct(Ids(arg.doc.RubricCriterion))
                    /\ Distinct(Ids(arg.doc.RubricScale))) => GridMatches

\* C18 witness: a document listing a criterion of position 2 before one of
\* position 1 and a scale of position 2 before one of position 1 was written
\* with the rows in collection order and the columns in position order, one
\* cell empty for want of a record.
C18_Witness ==
    /\ GridWritten
    /\ Len(arg.doc.RubricCriterion) = 2
    /\ arg.doc.RubricCriterion[1].position > arg.doc.RubricCriterion[2].position
    /\ arg.doc.RubricCriterion[2].description = Missing
    /\ Len(arg.doc.RubricScale) = 2
    /\ arg.doc.RubricScale[1].position > arg.doc.RubricScale[2].position
    /\ Len(xlsx.columns) = 3
    /\ Len(xlsx.rows) >= 1
    /\ Len(xlsx.rows[1]) = 3
    /\ xlsx.rows[1][1] = LabelFor(arg.doc.RubricCriterion[1])
    /\ xlsx.columns[2] = arg.doc.RubricScale[2].name.s \o ScaleSuffix
    /\ xlsx.rows[1][2] = Str(<<>>)
    /\ xlsx.rows[1][3] # Str(<<>>)

(***************************************************************************)
(* Claims about ims_to_excel (checked under SpecIms).                      *)
(***************************************************************************)
ImsWritten == op = "ims_to_excel" /\ pc = "r2x_done"

\* the criteria of the document given, and the levels of its r-th criterion
GivenCriteria ==
    IF "CFRubricCriterion" \in json.doc.keys THEN json.doc.CFRubricCriterion
    ELSE json.doc.criteria

GivenLevels(r) ==
    LET c == GivenCriteria[r]
    IN IF c.has_cf THEN c.cf_levels ELSE IF c.has_levels THEN c.levels ELSE <<>>

\* the largest number of levels of a criterion of the document given
MostLevels ==
    CHOOSE n \in {Len(GivenLevels(r)) : r \in 1..Len(GivenCriteria)} :
        \A r \in 1..Len(GivenCriteria) : Len(GivenLevels(r)) <= n

\* C8: for every IMS document with at least one criterion ims_to_excel
\* writes a rectangular grid of one row per criterion and 1 + N columns, N
\* the largest number of levels of a criterion: the label column and the
\* columns "Level 1 (desc [value])" to "Level N (desc [value])"; a criterion
\* of k levels has the cells of its levels in the first k level columns, in
\* list order, and N - k empty cells after them.  A document without criteria
\* is rejected and nothing is written.
C8_Rectangular ==
    /\ ImsWritten =>
         /\ GivenCriteria # <<>>
         /\ Len(xlsx.columns) = 1 + MostLevels
         /\ xlsx.columns[1] = CriterionColumn
         /\ \A i \in 1..MostLevels :
              xlsx.columns[1 + i] = <<"L", "e", "v", "e", "l", " ">> \o NatToDigits(i) \o ScaleSuffix
         /\ Len(xlsx.rows) = Len(GivenCriteria)
         /\ \A r \in 1..Len(xlsx.rows) :
              /\ Len(xlsx.rows[r]) = 1 + MostLevels
              /\ \A i \in 1..Len(GivenLevels(r)) :
                   xlsx.rows[r][1 + i] = LevelCell(GivenLevels(r)[i])
              /\ \A i \in (Len(GivenLevels(r)) + 1)..MostLevels :
                   xlsx.rows[r][1 + i] = Str(<<>>)
    /\ (op = "ims_to_excel" /\ pc = "failed") =>
         (GivenCriteria = <<>> /\ res = "ValueError" /\ ~xlsx.exists)

\* C8 witness: a document whose first criterion has one level and whose
\* second has two was written as a grid of three columns, the first row
\* ending in one empty cell.
C8_Witness ==
    /\ ImsWritten
    /\ Len(GivenCriteria) = 2
    /\ Len(GivenLevels(1)) = 1
    /\ Len(GivenLevels(2)) = 2
    /\ Len(xlsx.columns) = 3
    /\ xlsx.rows[1][2] # Str(<<>>)
    /\ xlsx.rows[1][3] = Str(<<>>)
    /\ xlsx.rows[2][3] # Str(<<>>)

\* the number of non-empty level cells of grid row r
FilledCells(r) ==
    Cardinality({i \in 2..Len(xlsx.rows[r]) : xlsx.rows[r][i] # Str(<<>>)})

\* C9 as stated: in the grid ims_to_excel writes, the number of non-empty
\* level cells of each criterion's row equals the number of levels of the
\* criterion, whatever the description and score / points of the levels hold.
C9_FilledCells ==
    ImsWritten => \A r \in 1..Len(xlsx.rows) : FilledCells(r) = Len(GivenLevels(r))

(***************************************************************************)
(* Claims about the four conversions (checked under SpecConversions).      *)
(***************************************************************************)
FromExcel == op \in {"excel_to_rbc", "excel_to_ims"}

\* the output file of the conversion exists
OutputExists == IF FromExcel THEN json.exists ELSE xlsx.exists

\* the output file holds the whole document or grid built in memory
OutputComplete ==
    IF FromExcel THEN json.doc = mem.doc
    ELSE xlsx.columns = mem.columns /\ xlsx.rows = mem.rows

C15_Identifiers ==
    Built =>
        LET scales == mem.doc.RubricScale
            crits == mem.doc.RubricCriterion
            cells == mem.doc.RubricCriterionScale
        IN /\ \A j \in 1..Len(scales) : scales[j].id = 1000000 + (j - 1)
           /\ \A i, j \in 1..Len(scales) :
                i < j => FirstGiven(scales[i].name.s) < FirstGiven(scales[j].name.s)
           /\ \A r \in 1..Len(crits) :
                /\ crits[r].id = 2000000 + (r - 1)
                /\ crits[r].name.s = Cut(GivenCritNames[r], CritNameMax)
           /\ Len(cells) = Len(crits) * Len(scales)
           /\ \A r \in 1..Len(crits) : \A j \in 1..Len(scales) :
                LET cs == cells[(r - 1) * Len(scales) + j]
                IN /\ cs.id = 3000000 + (r - 1) * Len(scales) + (j - 1)
                   /\ cs.criterion = crits[r].id
                   /\ cs.scale_value = scales[j].id
           /\ Distinct(Ids(scales) \o Ids(crits) \o Ids(cells))
           /\ mem.doc.Rubric[1].scale_values = Ids(scales)
           /\ mem.doc.Rubric[1].criterion = Ids(crits)
           /\ mem.doc.Rubric[1].criterion_scales_all = Ids(cells)

\* C15 witness: a second call, made after a first call that had handed out
\* identifiers of all three kinds, again numbered its first scale 1000000,
\* its first criterion 2000000 and its first cell 3000000.
C15_Witness ==
    /\ op = "excel_to_rbc" /\ pc = "done" /\ arg.call = 2
    /\ arg.first # None
    /\ Len(arg.first.RubricCriterionScale) >= 2
    /\ arg.first.RubricCriterionScale[2].id = 3000001
    /\ Len(json.doc.RubricScale) >= 1
    /\ Len(json.doc.RubricCriterion) >= 1
    /\ Len(json.doc.RubricCriterionScale) >= 2
    /\ json.doc.RubricScale[1].id = 1000000
    /\ json.doc.RubricCriterion[1].id = 2000000
    /\ json.doc.RubricCriterionScale[1].id = 3000000
    /\ json.doc.RubricCriterionScale[2].id = 3000001

(***************************************************************************)
(* Claims about excel_to_ims (checked under SpecExcelToIms).               *)
(***************************************************************************)
ImsBuilt == op = "excel_to_ims" /\ pc \in {"x2i_built", "done"}

\* the criteria of the document built
BuiltCriteria ==
    IF arg.use_cf_format THEN mem.doc.CFRubricCriterion ELSE mem.doc.criteria

BuiltLevels(r) ==
    IF arg.use_cf_format THEN BuiltCriteria[r].CFRubricCriterionLevels
    ELSE BuiltCriteria[r].levels

\* the level columns of the grid whose cell in row r is not empty (holds
\* more than white space), in column order
FilledLevelColumns(r) ==
    LET filled == {c \in 1..Len(xlsx.columns) :
                      /\ EndsWith(xlsx.columns[c], ScaleSuffix)
                      /\ xlsx.rows[r][c] # None
                      /\ Strip(xlsx.rows[r][c].s) # <<>>}
    IN [i \in 1..Cardinality(filled) |->
           CHOOSE c \in filled : Cardinality({d \in filled : d <= c}) = i]

C17_CriterionPosition ==
    (ImsBuilt /\ arg.use_cf_format) =>
        \A k \in 1..Len(mem.doc.CFRubricCriterion) :
            mem.doc.CFRubricCriterion[k].position = k - 1

(***************************************************************************)
(* Claims about the interactive host.                                      *)
(***************************************************************************)
\* a spreadsheet is uploaded and the handlers triggered by the last change
\* have all run
Settled == op = "app" /\ pc = "idle" /\ mem.uploaded_excel

\* the rubric name written in the file the session offers for download
OfferedName ==
    IF mem.converted_file = "ims"
    THEN json[mem.converted_file].doc.Title
    ELSE json[mem.converted_file].doc.Rubric[1].name

\* the file offered is in the format selected now
OfferedInFormat ==
    mem.converted_file = get_output_filename("xlsx", arg.output_format)

\* C19 as stated: once a spreadsheet is uploaded and the handlers triggered
\* by a change of the rubric-name field or of the format selector have all
\* run, the file offered for download is in the format selected now and
\* holds the rubric name that is in the field now (cut to 30 characters in
\* the Turnitin format); no file of an earlier name or format is offered.
C19_Rerun ==
    (Settled /\ mem.converted_file # "") =>
        /\ OfferedInFormat
        /\ json[mem.converted_file].exists
        /\ OfferedName = (IF mem.converted_file = "ims" THEN Str(arg.rubricname)
                          ELSE Str(truncate(arg.rubricname, RubricNameMax)))

====
